---- MODULE Spec2Model ----
(***************************************************************************)
(* State-machine model of the FDA guidance crawler                         *)
(* (fda_crawler: crawler_refactored.py, database.py, downloader.py,        *)
(* models.py) and of the feature-extraction batch (data_cleaning:          *)
(* processor.py).                                                          *)
(*                                                                         *)
(* Specifications:                                                         *)
(*   SpecListing  get_listing_data on its own, every limit value           *)
(*   Spec         the crawl / resume / extract runs over one database      *)
(*   SpecPacing   the external requests of a crawl on a discrete clock     *)
(*   SpecLLM      one extract_features call of the LLM processor           *)
(*   SpecFeatures the extract runs when a document has two attachment rows *)
(*   SpecConfig   one crawl() under every configuration, invalid ones too  *)
(*   SpecTermination  SpecConfig on an event loop that keeps running       *)
(*   SpecRepo     one call of create_or_update_document                    *)
(*   SpecBrowser  one call of get_listing_data_with_browser                *)
(*   SpecChrome   one call of get_listing_data_with_undetected_chrome      *)
(***************************************************************************)
EXTENDS Integers, Sequences, FiniteSets, Bags, TLC

None == "None"

----------------------------------------------------------------------------
(* Bounds of the model *)

\* number of distinct document urls a listing strategy can return
NumUrls == 1
\* longest listing a strategy returns / longest work list of one crawl
MaxListing == 2
\* crawl sessions that can be created
MaxSessions == 1
\* crawl() is no longer called once this many session errors are recorded
MaxErrors == 2
\* largest settings.max_concurrency tried
MaxConc == 2
\* largest `limit` argument tried on get_listing_data alone
MaxLimit == 6
\* documents in the source tables when the extract flow starts
MaxDocs == 3
\* settings.batch_size of the extract flow
BatchSize == 2
\* processing sessions that can be created
MaxXSessions == 1
\* clock ticks in 1 / settings.rate_limit seconds
Interval == 2
\* last tick of the discrete clock
MaxTime == 5
\* document pipelines of the timed crawl
MaxPaced == 2
\* largest settings.max_retries tried
MaxRetries == 3
\* largest settings.retry_delay tried, in seconds
MaxDelay == 2
\* most keys of a nested object in an LLM response
MaxKeys == 2
\* largest settings.rate_limit tried, in requests per second
MaxRateLimit == 1

\* table rows given to get_listing_data_with_undetected_chrome
MaxRows == 2

----------------------------------------------------------------------------
(* Data *)

UrlName == <<"u1", "u2", "u3", "u4", "u5">>

PdfUrls == {"pdf"}

\* the lists of candidate documents a strategy can return (the empty list
\* included)
StrategyLists ==
  LET ListingUrls == {UrlName[i] : i \in 1..NumUrls}
      Candidates == [document_url : ListingUrls, pdf_url : PdfUrls \cup {None}]
  IN  UNION {[1..n -> Candidates] : n \in 0..MaxListing}

\* what one strategy call can do: raise, or return a list
Raises == [raised |-> TRUE, docs |-> <<>>]

Returns(list) == [raised |-> FALSE, docs |-> list]

StrategyOutcomes == {Raises} \cup {Returns(l) : l \in StrategyLists}

\* FDACrawlerRefactored.FALLBACK_DOCUMENTS: five entries, each with a pdf_url
FALLBACK_DOCUMENTS ==
  [i \in 1..5 |-> [document_url |-> UrlName[i], pdf_url |-> "pdf"]]

Min(a, b) == IF a < b THEN a ELSE b
Max(a, b) == IF a > b THEN a ELSE b

\* Python's seq[:n] for an integer n (negative n counts from the end)
PySlice(seq, n) ==
  IF n >= 0 THEN SubSeq(seq, 1, Min(n, Len(seq)))
  ELSE SubSeq(seq, 1, Max(0, Len(seq) + n))

\* an Optional[int]: <<>> is None, <<n>> is the integer n
NoLimit == <<>>

\* Python truthiness of an optional integer: None and 0 are false
Truthy(limit) == limit # NoLimit /\ limit[1] # 0

\* the `limit` arguments tried
Limits == {NoLimit} \cup {<<n>> : n \in -1..MaxLimit}

VARIABLES
  gl_pc,          \* get_listing_data: idle, chrome, playwright, http, returned
  gl_limit,       \* its limit argument
  gl_tried,       \* history: the strategies invoked so far, in order
  gl_outcomes,    \* history: what each invoked strategy did
  gl_result,      \* the list returned
  crawl_sessions, \* table source.crawl_sessions; the row's index is its id
  documents,      \* table source.documents; the row's index is its id
  attachments,    \* table source.document_attachments, a bag of rows
  session_id,     \* CrawlSessionManager.session_id of the crawler object (0: None)
  pc,             \* where crawl() is: idle, listing, load, processing, except
  resume,         \* the resume_session_id crawl() was called with (0: None)
  documents_data, \* the work list of the running crawl()
  semaphore,      \* permits of crawl()'s Semaphore(settings.max_concurrency); 0: none
  tasks,          \* one document pipeline per work item
  h_listing,      \* history: the urls of each session's listing, when distinct
  h_pdf,          \* history: the document urls a pipeline has had a pdf url for
  flow,           \* the commands this behaviour runs: "harvest" or "extract"
  processing_sessions,  \* table source.processing_sessions; index is id
  document_features,    \* table source.document_features, a bag of rows
  x_session_id,   \* DataProcessor.session_id (0: None)
  x_pc,           \* where process_documents() is: idle, query, batch, gather
  x_documents,    \* the documents process_documents() found to process
  x_next,         \* index in x_documents of the next batch
  x_semaphore,    \* permits of _process_documents_batch's Semaphore; 0: none
  x_tasks,        \* one process_single task per document of the batch
  p_now,          \* the discrete clock of the timed crawl
  p_semaphore,    \* permits of the timed crawl's Semaphore; 0: none
  p_tasks,        \* the timed pipelines: where each is, and when its sleep ends
  p_last,         \* history: when the last external request started (-1: never)
  l_pc,           \* where extract_features is: idle, call, sleep, parse, returned
  l_max_retries,  \* settings.max_retries
  l_retry_delay,  \* settings.retry_delay
  l_attempt,      \* the loop variable of _call_openai_with_retry
  l_calls,        \* history: the API calls made
  l_delays,       \* history: the delays slept, in order
  l_response,     \* what _call_openai_with_retry returned
  l_result,       \* the ExtractionResponse returned
  c_pc,           \* the crawl under a configuration: idle, create, listing,
                  \* semaphore, gather, except, returned, raised
  c_max_concurrency,  \* settings.max_concurrency
  c_rate_limit,   \* settings.rate_limit
  c_session,      \* status of the CrawlSession row stored ("None": no row)
  c_documents,    \* length of the work list
  c_permits,      \* permits of Semaphore(settings.max_concurrency)
  c_tasks,        \* the document pipelines gather runs
  repo_pc,        \* create_or_update_document: idle, returned, raised
  repo_doc_data,  \* the candidate it was called with
  br_pc,          \* get_listing_data_with_browser: idle, called
  br_call,        \* its limit, where the automation fails, the rows of the page
  br_result,      \* what it did: raised, or the list returned
  uc_pc,          \* get_listing_data_with_undetected_chrome: idle, called
  uc_call,        \* its limit and the rows of the table
  uc_result       \* the list returned

glvars == <<gl_pc, gl_limit, gl_tried, gl_outcomes, gl_result>>

dbvars == <<crawl_sessions, documents, attachments>>

runvars == <<session_id, pc, resume, documents_data, semaphore, tasks>>

hvars == <<h_listing, h_pdf>>

xdbvars == <<processing_sessions, document_features>>

xrunvars == <<x_session_id, x_pc, x_documents, x_next, x_semaphore, x_tasks>>

pacevars == <<p_now, p_semaphore, p_tasks, p_last>>

llmvars == <<l_pc, l_max_retries, l_retry_delay, l_attempt, l_calls, l_delays,
             l_response, l_result>>

confvars == <<c_pc, c_max_concurrency, c_rate_limit, c_session, c_documents,
              c_permits, c_tasks>>

\* the single calls of the repository and of the listing strategies
callvars == <<repo_pc, repo_doc_data, br_pc, br_call, br_result,
              uc_pc, uc_call, uc_result>>

\* everything the timed crawl leaves alone
unpacedvars ==
  <<glvars, dbvars, runvars, hvars, flow, xdbvars, xrunvars, llmvars,
    confvars, callvars>>

\* everything extract_features leaves alone
unllmvars ==
  <<glvars, dbvars, runvars, hvars, flow, xdbvars, xrunvars, pacevars,
    confvars, callvars>>

\* everything the crawl under a configuration leaves alone
unconfvars ==
  <<glvars, dbvars, runvars, hvars, flow, xdbvars, xrunvars, pacevars,
    llmvars, callvars>>

\* everything the harvest flow leaves alone
xvars == <<flow, processing_sessions, document_features, x_session_id, x_pc,
           x_documents, x_next, x_semaphore, x_tasks, pacevars, llmvars,
           confvars, callvars>>

\* everything the extract flow leaves alone
harvestvars ==
  <<gl_pc, gl_limit, gl_tried, gl_outcomes, gl_result, crawl_sessions,
    documents, attachments, session_id, pc, resume, documents_data,
    semaphore, tasks, h_listing, h_pdf, pacevars, llmvars, confvars,
    callvars>>

vars == <<gl_pc, gl_limit, gl_tried, gl_outcomes, gl_result,
          crawl_sessions, documents, attachments, session_id, pc, resume,
          documents_data, semaphore, tasks, h_listing, h_pdf,
          flow, processing_sessions, document_features, x_session_id, x_pc,
          x_documents, x_next, x_semaphore, x_tasks,
          p_now, p_semaphore, p_tasks, p_last,
          l_pc, l_max_retries, l_retry_delay, l_attempt, l_calls, l_delays,
          l_response, l_result,
          c_pc, c_max_concurrency, c_rate_limit, c_session, c_documents,
          c_permits, c_tasks,
          repo_pc, repo_doc_data, br_pc, br_call, br_result,
          uc_pc, uc_call, uc_result>>

----------------------------------------------------------------------------
(* get_listing_data: the listing provider chain *)

StrategyOrder == <<"chrome", "playwright", "http">>

GLInit ==
  /\ gl_pc = "idle"
  /\ gl_limit = NoLimit
  /\ gl_tried = <<>>
  /\ gl_outcomes = <<>>
  /\ gl_result = <<>>

\* variant: the whole fallback list whatever the limit
FallbackList_nolimit(limit) == FALLBACK_DOCUMENTS

\* method 4: self.FALLBACK_DOCUMENTS[:limit] if limit else self.FALLBACK_DOCUMENTS
FallbackList(limit) ==
  IF Truthy(limit) THEN PySlice(FALLBACK_DOCUMENTS, limit[1]) ELSE FALLBACK_DOCUMENTS

\* a call of get_listing_data(limit) starts with method 1
GLCall(limit) ==
  /\ gl_pc = "idle"
  /\ gl_pc' = "chrome"
  /\ gl_limit' = limit
  /\ gl_tried' = <<>>
  /\ gl_outcomes' = <<>>
  /\ gl_result' = <<>>

\* one try/except block of get_listing_data: invoke the strategy; return its
\* list when it is non-empty, otherwise (exception logged, or empty) fall
\* through to `next`; after the last strategy the fallback documents are used
TryStrategy(name, next, out) ==
  /\ gl_pc = name
  /\ gl_limit' = gl_limit
  /\ IF ~out.raised /\ out.docs # <<>>
       THEN /\ gl_pc' = "returned"
            /\ gl_result' = out.docs
       ELSE IF next = "fallback"
              THEN /\ gl_pc' = "returned"
                   /\ gl_result' = FallbackList(gl_limit)
              ELSE /\ gl_pc' = next
                   /\ gl_result' = gl_result

\* variant: a failed Chrome attempt goes straight to direct HTTP
TryChrome_skip(out) == TryStrategy("chrome", "http", out)

TryChrome(out) == TryStrategy("chrome", "playwright", out)

TryPlaywright(out) == TryStrategy("playwright", "http", out)

\* _get_listing_data_http logs and re-raises; get_listing_data catches it
TryHttp(out) == TryStrategy("http", "fallback", out)

\* history of the chain: which strategy was invoked and what it did
Record(out) ==
  /\ gl_tried' = Append(gl_tried, gl_pc)
  /\ gl_outcomes' = Append(gl_outcomes, out)

\* the locals of get_listing_data are gone once it is left
GLReset ==
  /\ gl_pc' = "idle"
  /\ gl_limit' = NoLimit
  /\ gl_tried' = <<>>
  /\ gl_outcomes' = <<>>
  /\ gl_result' = <<>>

\* the caller takes the returned list
GLReturn ==
  /\ gl_pc = "returned"
  /\ GLReset

----------------------------------------------------------------------------
(* The database and the crawler object *)

\* CrawlSession(...) as create_crawl_session stores it: column defaults
NewCrawlSession ==
  [status |-> "running", total_documents |-> -1, processed_documents |-> 0,
   successful_downloads |-> 0, failed_documents |-> 0, error_count |-> 0,
   last_error |-> None, completed_at |-> None]

\* Document(crawl_session_id=..., document_url=..., **combined_metadata)
NewDocument(url, sid) ==
  [document_url |-> url, crawl_session_id |-> sid, summary |-> None,
   processing_status |-> "processing", processing_error |-> None]

\* DocumentAttachment(document_id, filename, source_url, file_type) stored
\* with download_status "completed"
NewAttachment(doc, src) ==
  [document_id |-> doc, source_url |-> src, download_status |-> "completed"]

\* select(Document).where(Document.document_url == url)
DocIdsByUrl(url) == {d \in DOMAIN documents : documents[d].document_url = url}

\* the urls of a list of listing data
UrlsOf(data) == {data[k].document_url : k \in DOMAIN data}

\* a document pipeline that has not started: it waits for the semaphore
NewTask(doc_data) ==
  [pc |-> "waiting", doc_data |-> doc_data, doc |-> 0, loaded_status |-> None,
   detail |-> None, pdf_success |-> TRUE, new_attachment |-> None,
   result |-> None, err |-> None, did |-> {}, seen_completed |-> FALSE]

\* a pipeline that has ended: its locals are gone, its result is kept by
\* gather; `did` and `err` record what it did
Done(t, result, err) ==
  [NewTask(t.doc_data) EXCEPT !.pc = "done", !.result = result, !.err = err,
                              !.did = t.did,
                              !.seen_completed = t.seen_completed]

\* tasks = [process_with_semaphore(doc_data) for doc_data in documents_data]
NewTasks(data) == [i \in DOMAIN data |-> NewTask(data[i])]

\* the pipelines that hold the semaphore
InFlight == {i \in DOMAIN tasks : tasks[i].pc \notin {"waiting", "done"}}

DbInit ==
  /\ crawl_sessions = <<>>
  /\ documents = <<>>
  /\ attachments = EmptyBag

RunInit ==
  /\ session_id = 0
  /\ pc = "idle"
  /\ resume = 0
  /\ documents_data = <<>>
  /\ semaphore = 0
  /\ tasks = <<>>

HInit == h_listing = <<>> /\ h_pdf = {}

RECURSIVE ErrorsUpTo(_)
ErrorsUpTo(s) ==
  IF s = 0 THEN 0 ELSE crawl_sessions[s].error_count + ErrorsUpTo(s - 1)

\* crawl() is called only while the recorded errors are below the bound
CallAllowed == ErrorsUpTo(Len(crawl_sessions)) < MaxErrors

----------------------------------------------------------------------------
(* CrawlSessionManager *)

\* variant: only an unknown id is rejected
ResumeRejected_unknown(id) == id \notin DOMAIN crawl_sessions

\* resume_crawl_session returns False: unknown id, or status "completed"
ResumeRejected(id) ==
  \/ id \notin DOMAIN crawl_sessions
  \/ crawl_sessions[id].status = "completed"

\* update(CrawlSession).values(total_documents=...)
update_session_total_documents(sid, n) ==
  [crawl_sessions EXCEPT ![sid].total_documents = n]

\* update(CrawlSession).values(status="completed", completed_at=utcnow(),
\*   processed_documents=..., successful_downloads=...)
complete_session(sid, processed, successful) ==
  [crawl_sessions EXCEPT ![sid].status = "completed",
                         ![sid].completed_at = "set",
                         ![sid].processed_documents = processed,
                         ![sid].successful_downloads = successful]

\* variant: the error is recorded and the status is left as it is
fail_session_statuskept(sid, message) ==
  [crawl_sessions EXCEPT ![sid].last_error = message,
                         ![sid].error_count = @ + 1]

\* update(CrawlSession).values(status="failed", last_error=...,
\*   error_count=CrawlSession.error_count + 1)
fail_session(sid, message) ==
  [crawl_sessions EXCEPT ![sid].status = "failed",
                         ![sid].last_error = message,
                         ![sid].error_count = @ + 1]

\* get_unprocessed_documents: the pending and failed rows of the session, in
\* id order, each turned back into listing data with pdf_url None
get_unprocessed_documents(sid) ==
  LET all == [d \in 1..Len(documents) |-> d]
      Keep(d) == /\ documents[d].crawl_session_id = sid
                 /\ documents[d].processing_status \in {"pending", "failed"}
      ids == SelectSeq(all, Keep)
  IN [k \in DOMAIN ids |->
        [document_url |-> documents[ids[k]].document_url, pdf_url |-> None]]

----------------------------------------------------------------------------
(* crawl(): session, listing or reload, completion *)

\* the `test_limit` arguments tried on crawl()
CrawlLimits == {NoLimit} \cup {<<n>> : n \in 1..MaxListing}

ClearRun ==
  /\ resume' = 0
  /\ documents_data' = <<>>
  /\ semaphore' = 0
  /\ tasks' = <<>>

\* crawl(test_limit): create_crawl_session, then get_listing_data starts
CrawlFresh(limit) ==
  /\ flow = "harvest"
  /\ pc = "idle"
  /\ CallAllowed
  /\ Len(crawl_sessions) < MaxSessions
  /\ crawl_sessions' = Append(crawl_sessions, NewCrawlSession)
  /\ session_id' = Len(crawl_sessions) + 1
  /\ h_listing' = Append(h_listing, {})
  /\ UNCHANGED h_pdf
  /\ pc' = "listing"
  /\ GLCall(limit)
  /\ UNCHANGED <<documents, attachments, resume,
                 documents_data, semaphore, tasks, xvars>>

\* crawl(resume_session_id=id): resume_crawl_session; when it returns False
\* crawl raises "Could not resume session" into its own except block
CrawlResume(id) ==
  /\ flow = "harvest"
  /\ pc = "idle"
  /\ CallAllowed
  /\ IF ResumeRejected(id)
       THEN /\ pc' = "except"
            /\ UNCHANGED <<crawl_sessions, session_id>>
       ELSE /\ crawl_sessions' = [crawl_sessions EXCEPT ![id].status = "running"]
            /\ session_id' = id
            /\ pc' = "load"
  /\ resume' = id
  /\ UNCHANGED <<glvars, documents, attachments,
                 documents_data, semaphore, tasks, hvars, xvars>>

\* one strategy of get_listing_data runs inside crawl(); lists longer than
\* the bound are left out
CrawlListing ==
  /\ pc = "listing"
  /\ \E out \in StrategyOutcomes :
        TryChrome(out) \/ TryPlaywright(out) \/ TryHttp(out)
  /\ Len(gl_result') <= MaxListing
  /\ UNCHANGED <<gl_tried, gl_outcomes, dbvars, runvars, hvars, xvars>>

\* FDACrawler.crawl(test_limit), the crawler of the CLI: a new session, then
\* its one listing strategy
FDACrawlFresh(limit) ==
  /\ flow = "harvest"
  /\ pc = "idle"
  /\ CallAllowed
  /\ Len(crawl_sessions) < MaxSessions
  /\ crawl_sessions' = Append(crawl_sessions, NewCrawlSession)
  /\ session_id' = Len(crawl_sessions) + 1
  /\ h_listing' = Append(h_listing, {})
  /\ pc' = "chrome_only"
  /\ gl_limit' = limit
  /\ UNCHANGED <<gl_pc, gl_tried, gl_outcomes, gl_result, documents,
                 attachments, resume, documents_data, semaphore, tasks,
                 h_pdf, xvars>>

\* get_listing_data_with_undetected_chrome(test_limit) inside FDACrawler.crawl:
\* an exception gives FALLBACK_DOCUMENTS (cut to the limit), a returned list
\* is the work list as it is; from here on FDACrawler.crawl goes the way of
\* FDACrawlerRefactored.crawl
FDACrawlListing ==
  /\ pc = "chrome_only"
  /\ \E out \in StrategyOutcomes :
        gl_result' = IF out.raised THEN FallbackList(gl_limit) ELSE out.docs
  /\ Len(gl_result') <= MaxListing
  /\ gl_pc' = "returned"
  /\ pc' = "listing"
  /\ UNCHANGED <<gl_limit, gl_tried, gl_outcomes, dbvars, session_id, resume,
                 documents_data, semaphore, tasks, hvars, xvars>>

\* fresh crawl: the listing is the work list; total_documents is stored and
\* the pipelines are created (gather)
CrawlUpdateTotal ==
  /\ pc = "listing"
  /\ gl_pc = "returned"
  /\ documents_data' = gl_result
  /\ crawl_sessions' =
       update_session_total_documents(session_id, Len(gl_result))
  /\ semaphore' \in 1..MaxConc
  /\ tasks' = NewTasks(gl_result)
  /\ h_listing' = [h_listing EXCEPT ![session_id] =
                      IF Cardinality(UrlsOf(gl_result)) = Len(gl_result)
                        THEN UrlsOf(gl_result) ELSE {}]
  /\ UNCHANGED h_pdf
  /\ pc' = "processing"
  /\ GLReturn
  /\ UNCHANGED <<documents, attachments, session_id, resume, xvars>>

\* resume: the work list is get_unprocessed_documents()
CrawlLoad ==
  /\ pc = "load"
  /\ documents_data' = get_unprocessed_documents(session_id)
  /\ semaphore' \in 1..MaxConc
  /\ tasks' = NewTasks(get_unprocessed_documents(session_id))
  /\ pc' = "processing"
  /\ UNCHANGED <<glvars, dbvars, session_id, resume, hvars, xvars>>

\* a database error in update_session_total_documents or
\* get_unprocessed_documents: crawl() goes to its except block
CrawlRaise ==
  /\ \/ pc = "listing" /\ gl_pc = "returned"
     \/ pc = "load"
  /\ pc' = "except"
  /\ IF gl_pc = "returned" THEN GLReturn ELSE UNCHANGED glvars
  /\ UNCHANGED <<dbvars, session_id, resume, documents_data, semaphore,
                 tasks, hvars, xvars>>

\* gather has returned: successful = sum(1 for r in results if r is True),
\* then complete_session(len(documents_data), successful)
CrawlComplete ==
  /\ pc = "processing"
  /\ \A i \in DOMAIN tasks : tasks[i].pc = "done"
  /\ crawl_sessions' =
       complete_session(session_id, Len(documents_data),
         Cardinality({i \in DOMAIN tasks : tasks[i].result = "True"}))
  /\ pc' = "idle"
  /\ ClearRun
  /\ UNCHANGED <<glvars, documents, attachments, session_id,
                 hvars, xvars>>

\* except block of crawl(): fail_session on the manager's session_id when
\* there is one, then re-raise
CrawlExcept ==
  /\ pc = "except"
  /\ crawl_sessions' =
       IF session_id # 0
         THEN fail_session(session_id, "error")
         ELSE crawl_sessions
  /\ pc' = "idle"
  /\ ClearRun
  /\ UNCHANGED <<glvars, documents, attachments, session_id,
                 hvars, xvars>>

\* crawl() is cancelled or its process is killed: CancelledError is not an
\* Exception, so it passes the except blocks of the pipelines and of crawl(),
\* every pipeline stops at its current await and nothing more is written.
\* Nothing but the database survives; the next command runs in a new crawler
\* object
Kill ==
  /\ pc \in {"listing", "chrome_only", "load", "processing"}
  /\ pc' = "idle"
  /\ session_id' = 0
  /\ ClearRun
  /\ GLReset
  /\ UNCHANGED <<dbvars, hvars, xvars>>

\* FDACrawlerRefactored.__aenter__: a new CrawlSessionManager, session_id None
NewCrawler ==
  /\ pc = "idle"
  /\ session_id # 0
  /\ session_id' = 0
  /\ UNCHANGED <<glvars, dbvars, pc, resume, documents_data, semaphore,
                 tasks, hvars, xvars>>

----------------------------------------------------------------------------
(* DocumentProcessor.process_document_with_db: one document pipeline *)

\* variant: an exception of a pipeline is raised out of gather
AfterPipeline_propagate(result) ==
  IF result = "exception" THEN "except" ELSE "processing"

\* asyncio.gather(*tasks, return_exceptions=True): whatever a pipeline
\* returns or raises is collected and crawl() goes on waiting
AfterPipeline(result) == "processing"

\* variant: the pipelines do not wait for a permit
SemaphoreFree_always == TRUE

\* asyncio.Semaphore(settings.max_concurrency) has a free permit
SemaphoreFree == Cardinality(InFlight) < semaphore

\* variant: no unique constraint on document_url
UniqueViolation_off(url) == FALSE

\* document_url is declared unique=True: a second row with the url is refused
UniqueViolation(url) == DocIdsByUrl(url) # {}

\* variant: no early return for a completed document
AlreadyCompleted_never(d) == FALSE

\* existing_doc and existing_doc.processing_status == "completed"
AlreadyCompleted(d) == d # 0 /\ documents[d].processing_status = "completed"

\* variant: after a parsing error no attachment url is used at all
PdfUrlOf_abort(t) ==
  IF t.detail = "parsing_error" THEN None
  ELSE IF t.doc_data.pdf_url # None THEN t.doc_data.pdf_url
  ELSE t.detail

\* doc_data.get('pdf_url') or detail_metadata.get('pdf_download_url')
PdfUrlOf(t) ==
  IF t.doc_data.pdf_url # None THEN t.doc_data.pdf_url
  ELSE IF t.detail = "parsing_error" THEN None
  ELSE t.detail

\* 'summary': detail_metadata.get('summary'); detail_metadata is {} after a
\* parsing error.  Of the pages that parse, the one without a pdf link stands
\* for a page without a summary as well
SummaryOf(t) == IF t.detail \in {None, "parsing_error"} THEN None ELSE "summary"

\* variant: the new value is stored whatever it is
Merge_overwrite(old, new) == new

\* if hasattr(doc, key) and value is not None: setattr(doc, key, value)
Merge(old, new) == IF new = None THEN old ELSE new

\* variant: the status set on the loaded row is never flushed
WriteStatus_never(docs, d, loaded, status) == docs

\* the ORM writes a column only when the value set differs from the one loaded
WriteStatus(docs, d, loaded, status) ==
  IF status # loaded
    THEN [docs EXCEPT ![d].processing_status = status]
    ELSE docs

Bool(b) == IF b THEN "True" ELSE "False"

\* `async with semaphore`: the pipeline takes a permit
PAcquire(i) ==
  /\ pc = "processing"
  /\ tasks[i].pc = "waiting"
  /\ SemaphoreFree
  /\ tasks' = [tasks EXCEPT ![i].pc = "check"]
  /\ UNCHANGED <<glvars, dbvars, session_id, pc, resume,
                 documents_data, semaphore, hvars, xvars>>

\* select the Document by url; a completed one ends the pipeline with True
PCheck(i) ==
  /\ pc = "processing"
  /\ tasks[i].pc = "check"
  /\ LET t == tasks[i]
         ids == DocIdsByUrl(t.doc_data.document_url)
         seen == \E d \in ids : documents[d].processing_status = "completed"
         existing == IF ids = {} THEN 0 ELSE CHOOSE d \in ids : TRUE
     IN tasks' = [tasks EXCEPT ![i] =
          IF Cardinality(ids) > 1
            THEN \* scalar_one_or_none raises MultipleResultsFound; no `doc` yet
                 Done([t EXCEPT !.seen_completed = seen], "False",
                      "MultipleResultsFound")
          ELSE IF AlreadyCompleted(existing)
            THEN Done([t EXCEPT !.seen_completed = seen], "True", None)
          ELSE [t EXCEPT !.pc = "detail", !.doc = existing,
                         !.loaded_status =
                            IF existing = 0 THEN None
                            ELSE documents[existing].processing_status,
                         !.seen_completed = seen]]
  /\ UNCHANGED <<glvars, dbvars, session_id, pc, resume,
                 documents_data, semaphore, hvars, xvars>>

\* parse_document_page: one fetch of the detail page; an error gives
\* {'parsing_error': ...}, otherwise the page may or may not name a PDF
PDetail(i) ==
  /\ pc = "processing"
  /\ tasks[i].pc = "detail"
  /\ \E out \in {"parsing_error", None} \cup PdfUrls :
        tasks' = [tasks EXCEPT ![i].pc = "persist",
                               ![i].detail = out,
                               ![i].did = @ \cup {"fetch"}]
  /\ UNCHANGED <<glvars, dbvars, session_id, pc, resume,
                 documents_data, semaphore, hvars, xvars>>

\* create or update the row, status "processing", commit, refresh.
\* An INSERT refused by the unique constraint raises IntegrityError: the except
\* block finds `doc` and commits again on the failed session, which writes
\* nothing; the pipeline ends with False or with that commit's exception
PPersist(i) ==
  /\ pc = "processing"
  /\ tasks[i].pc = "persist"
  /\ LET t == tasks[i]
         url == t.doc_data.document_url
     IN IF t.doc # 0
          THEN /\ documents' =
                    [WriteStatus(documents, t.doc, t.loaded_status, "processing")
                       EXCEPT ![t.doc].summary = Merge(@, SummaryOf(t))]
               /\ tasks' = [tasks EXCEPT
                    ![i].pc = "attach",
                    ![i].loaded_status = documents'[t.doc].processing_status,
                    ![i].did = @ \cup {"write"}]
          ELSE IF UniqueViolation(url)
            THEN /\ \E r \in {"False", "exception"} :
                       tasks' = [tasks EXCEPT ![i] =
                                   Done(t, r, "IntegrityError")]
                 /\ UNCHANGED documents
            ELSE /\ documents' =
                      Append(documents,
                             [NewDocument(url, session_id)
                                EXCEPT !.summary = SummaryOf(t)])
                 /\ tasks' = [tasks EXCEPT ![i].pc = "attach",
                                           ![i].doc = Len(documents) + 1,
                                           ![i].loaded_status = "processing",
                                           ![i].did = @ \cup {"write"}]
  /\ pc' = IF tasks'[i].pc = "done" THEN AfterPipeline(tasks'[i].result) ELSE pc
  /\ UNCHANGED <<glvars, crawl_sessions, attachments,
                 session_id, resume, documents_data, semaphore, hvars, xvars>>

\* _handle_pdf_download up to the download: no url, an attachment already
\* stored, or one download_pdf call that succeeds or returns None.  Two rows
\* for (document, source_url) make scalar_one_or_none raise: the except block
\* marks the document failed with the error and returns False
PAttach(i) ==
  /\ pc = "processing"
  /\ tasks[i].pc = "attach"
  /\ LET t == tasks[i]
         pdf_url == PdfUrlOf(t)
         n == IF pdf_url = None THEN 0
              ELSE CopiesIn(NewAttachment(t.doc, pdf_url), attachments)
     IN IF pdf_url = None \/ n = 1
          THEN /\ tasks' = [tasks EXCEPT ![i].pc = "final"]
               /\ UNCHANGED documents
          ELSE IF n > 1
            THEN /\ documents' =
                      [WriteStatus(documents, t.doc, t.loaded_status, "failed")
                         EXCEPT ![t.doc].processing_error = "MultipleResultsFound"]
                 /\ tasks' = [tasks EXCEPT ![i] =
                      Done([t EXCEPT !.did = @ \cup {"write"}], "False",
                           "MultipleResultsFound")]
            ELSE /\ \E ok \in BOOLEAN :
                       tasks' = [tasks EXCEPT
                         ![i].pc = "final",
                         ![i].did = @ \cup {"download"},
                         ![i].pdf_success = ok,
                         ![i].new_attachment = IF ok THEN pdf_url ELSE None]
                 /\ UNCHANGED documents
  /\ h_pdf' = IF PdfUrlOf(tasks[i]) = None THEN h_pdf
             ELSE h_pdf \cup {tasks[i].doc_data.document_url}
  /\ UNCHANGED <<glvars, crawl_sessions, attachments, session_id, pc, resume,
                 documents_data, semaphore, h_listing, xvars>>

\* the last commit: the attachment row if one was downloaded, and the
\* document's status "completed" if pdf_success else "failed"; returns
\* pdf_success and leaves the semaphore
PFinal(i) ==
  /\ pc = "processing"
  /\ tasks[i].pc = "final"
  /\ LET t == tasks[i]
     IN /\ attachments' =
             IF t.new_attachment # None
               THEN attachments (+) SetToBag({NewAttachment(t.doc, t.new_attachment)})
               ELSE attachments
        /\ documents' =
             WriteStatus(documents, t.doc, t.loaded_status,
                         IF t.pdf_success THEN "completed" ELSE "failed")
        /\ tasks' = [tasks EXCEPT ![i] =
             Done([t EXCEPT !.did = @ \cup {"write"}], Bool(t.pdf_success),
                  None)]
  /\ UNCHANGED <<glvars, crawl_sessions, session_id, pc,
                 resume, documents_data, semaphore, hvars, xvars>>

----------------------------------------------------------------------------
(* DataProcessor: the extract flow (data_cleaning/processor.py).            *)
(* The processing_logs table is not modelled.                               *)

\* ProcessingSession(...) as _create_or_resume_session stores it
NewProcessingSession ==
  [status |-> "running", total_documents |-> -1, processed_documents |-> 0,
   failed_documents |-> 0, error_count |-> 0, last_error |-> None,
   completed_at |-> None]

\* DocumentFeatures(source_document_id, processing_session_id, ...,
\* processing_status="completed")
NewFeatures(doc, sid) ==
  [source_document_id |-> doc, processing_session_id |-> sid,
   processing_status |-> "completed"]

RECURSIVE AttachmentRows(_, _)
\* the completed attachment rows of document d with a source_url in S
AttachmentRows(d, S) ==
  IF S = {} THEN 0
  ELSE LET src == CHOOSE x \in S : TRUE
       IN CopiesIn(NewAttachment(d, src), attachments)
            + AttachmentRows(d, S \ {src})

\* the rows the JOIN gives for document d: one per completed attachment
JoinRows(d) ==
  LET \* the urls whose title, topic or organization mention medical devices
      DeviceUrls == {"u1", "u2", "u3", "u4"}
      \* d.id NOT IN (SELECT source_document_id FROM document_features
      \*              WHERE processing_status = 'completed')
      HasFeatures ==
        \E f \in BagToSet(document_features) :
           f.source_document_id = d /\ f.processing_status = "completed"
  IN
  IF /\ documents[d].processing_status = "completed"
     /\ documents[d].document_url \in DeviceUrls
     /\ ~HasFeatures
    THEN [k \in 1..AttachmentRows(d, PdfUrls) |-> d]
    ELSE <<>>

RECURSIVE JoinFrom(_)
\* ORDER BY d.created_at DESC: the newest document first
JoinFrom(d) == IF d = 0 THEN <<>> ELSE JoinRows(d) \o JoinFrom(d - 1)

\* _get_documents_to_process: the query, with LIMIT when a limit is given
get_documents_to_process(limit) ==
  IF Truthy(limit) THEN PySlice(JoinFrom(Len(documents)), limit[1])
  ELSE JoinFrom(Len(documents))

\* the `limit` arguments tried on process_documents()
XLimits == {NoLimit, <<1>>}

NewXTask(doc) == [pc |-> "waiting", doc |-> doc, ok |-> FALSE, read |-> -1]

\* the process_single tasks that hold the semaphore
XInFlight == {i \in DOMAIN x_tasks : x_tasks[i].pc \notin {"waiting", "done"}}

\* _complete_session: status and completed_at
x_complete_session(sid) ==
  [processing_sessions EXCEPT ![sid].status = "completed",
                              ![sid].completed_at = "set"]

\* _fail_session: status, last_error and completed_at
x_fail_session(sid, message) ==
  [processing_sessions EXCEPT ![sid].status = "failed",
                              ![sid].last_error = message,
                              ![sid].completed_at = "set"]

XClearRun ==
  /\ x_documents' = <<>>
  /\ x_next' = 0
  /\ x_semaphore' = 0
  /\ x_tasks' = <<>>

XInit ==
  /\ processing_sessions = <<>>
  /\ document_features = EmptyBag
  /\ x_session_id = 0
  /\ x_pc = "idle"
  /\ x_documents = <<>>
  /\ x_next = 0
  /\ x_semaphore = 0
  /\ x_tasks = <<>>

\* process_documents(): _create_or_resume_session creates a session
XFresh ==
  /\ flow = "extract"
  /\ x_pc = "idle"
  /\ Len(processing_sessions) < MaxXSessions
  /\ processing_sessions' = Append(processing_sessions, NewProcessingSession)
  /\ x_session_id' = Len(processing_sessions) + 1
  /\ x_pc' = "query"
  /\ UNCHANGED <<harvestvars, flow, document_features, x_documents, x_next,
                 x_semaphore, x_tasks>>

\* the counters of a processing session
XCounted(sid) ==
  processing_sessions[sid].processed_documents
    + processing_sessions[sid].failed_documents

\* process_documents(resume_session_id=id): the session found is set to
\* "running"; resumes are tried while its counters are within the bound
XResume(id) ==
  /\ flow = "extract"
  /\ x_pc = "idle"
  /\ id \in DOMAIN processing_sessions
  /\ XCounted(id) <= MaxDocs
  /\ processing_sessions' = [processing_sessions EXCEPT ![id].status = "running"]
  /\ x_session_id' = id
  /\ x_pc' = "query"
  /\ UNCHANGED <<harvestvars, flow, document_features, x_documents, x_next,
                 x_semaphore, x_tasks>>

\* _get_documents_to_process; nothing to do completes the session, otherwise
\* total_documents is stored and _process_documents_batch makes its semaphore
XQuery(limit) ==
  /\ x_pc = "query"
  /\ LET found == get_documents_to_process(limit)
     IN IF found = <<>>
          THEN /\ processing_sessions' = x_complete_session(x_session_id)
               /\ x_pc' = "idle"
               /\ XClearRun
          ELSE /\ processing_sessions' =
                    [processing_sessions EXCEPT
                       ![x_session_id].total_documents = Len(found)]
               /\ x_documents' = found
               /\ x_next' = 1
               /\ x_semaphore' \in 1..MaxConc
               /\ x_pc' = "batch"
               /\ UNCHANGED x_tasks
  /\ UNCHANGED <<harvestvars, flow, document_features, x_session_id>>

\* the batch loop: the next batch_size documents are gathered; after the last
\* batch the session is completed
XBatch ==
  /\ x_pc = "batch"
  /\ IF x_next > Len(x_documents)
       THEN /\ processing_sessions' = x_complete_session(x_session_id)
            /\ x_pc' = "idle"
            /\ XClearRun
       ELSE /\ x_tasks' =
                 LET last == Min(x_next + BatchSize - 1, Len(x_documents))
                 IN [k \in 1..(last - x_next + 1) |->
                       NewXTask(x_documents[x_next + k - 1])]
            /\ x_pc' = "gather"
            /\ UNCHANGED <<processing_sessions, x_documents, x_next, x_semaphore>>
  /\ UNCHANGED <<harvestvars, flow, document_features, x_session_id>>

\* `async with semaphore` of process_single
XAcquire(i) ==
  /\ x_pc = "gather"
  /\ x_tasks[i].pc = "waiting"
  /\ Cardinality(XInFlight) < x_semaphore
  /\ x_tasks' = [x_tasks EXCEPT ![i].pc = "running"]
  /\ UNCHANGED <<harvestvars, flow, xdbvars, x_session_id, x_pc, x_documents,
                 x_next, x_semaphore>>

\* _process_single_document up to the counter: text extraction and the LLM
\* call succeed and the features are saved, or one of them fails
XProcess(i) ==
  /\ x_pc = "gather"
  /\ x_tasks[i].pc = "running"
  /\ \E ok \in BOOLEAN :
        /\ x_tasks' = [x_tasks EXCEPT ![i].pc = "inc_read", ![i].ok = ok]
        /\ document_features' =
             IF ok
               THEN document_features
                      (+) SetToBag({NewFeatures(x_tasks[i].doc, x_session_id)})
               ELSE document_features
  /\ UNCHANGED <<harvestvars, flow, processing_sessions, x_session_id, x_pc,
                 x_documents, x_next, x_semaphore>>

\* _increment_processed_count / _increment_failed_count: session.get
XIncRead(i) ==
  /\ x_pc = "gather"
  /\ x_tasks[i].pc = "inc_read"
  /\ x_tasks' = [x_tasks EXCEPT
       ![i].pc = "inc_write",
       ![i].read = IF x_tasks[i].ok
                     THEN processing_sessions[x_session_id].processed_documents
                     ELSE processing_sessions[x_session_id].failed_documents]
  /\ UNCHANGED <<harvestvars, flow, xdbvars, x_session_id, x_pc, x_documents,
                 x_next, x_semaphore>>

\* ... `+= 1` on the value read, commit; then the rate-limit sleep starts
XIncWrite(i) ==
  /\ x_pc = "gather"
  /\ x_tasks[i].pc = "inc_write"
  /\ processing_sessions' =
       IF x_tasks[i].ok
         THEN [processing_sessions EXCEPT
                 ![x_session_id].processed_documents = x_tasks[i].read + 1]
         ELSE [processing_sessions EXCEPT
                 ![x_session_id].failed_documents = x_tasks[i].read + 1]
  /\ x_tasks' = [x_tasks EXCEPT ![i].pc = "sleeping", ![i].read = -1]
  /\ UNCHANGED <<harvestvars, flow, document_features, x_session_id, x_pc,
                 x_documents, x_next, x_semaphore>>

\* asyncio.sleep(60.0 / rate_limit_requests_per_minute) ends; the task
\* leaves the semaphore
XSleep(i) ==
  /\ x_pc = "gather"
  /\ x_tasks[i].pc = "sleeping"
  /\ x_tasks' = [x_tasks EXCEPT ![i] =
                   [NewXTask(x_tasks[i].doc) EXCEPT !.pc = "done",
                                                    !.ok = x_tasks[i].ok]]
  /\ UNCHANGED <<harvestvars, flow, xdbvars, x_session_id, x_pc, x_documents,
                 x_next, x_semaphore>>

\* gather has returned: on to the next batch
XBatchDone ==
  /\ x_pc = "gather"
  /\ \A i \in DOMAIN x_tasks : x_tasks[i].pc = "done"
  /\ x_next' = x_next + BatchSize
  /\ x_tasks' = <<>>
  /\ x_pc' = "batch"
  /\ UNCHANGED <<harvestvars, flow, xdbvars, x_session_id, x_documents,
                 x_semaphore>>

\* a database error in the try block of process_documents: _fail_session
XRaise ==
  /\ x_pc \in {"query", "batch"}
  /\ processing_sessions' = x_fail_session(x_session_id, "error")
  /\ x_pc' = "idle"
  /\ XClearRun
  /\ UNCHANGED <<harvestvars, flow, document_features, x_session_id>>

\* the process is killed in the middle of process_documents()
XKill ==
  /\ x_pc # "idle"
  /\ x_pc' = "idle"
  /\ x_session_id' = 0
  /\ XClearRun
  /\ UNCHANGED <<harvestvars, flow, xdbvars>>

----------------------------------------------------------------------------
(* The external requests of the document pipelines on a discrete clock:     *)
(* parse_document_page and download_pdf each sleep 1 / settings.rate_limit  *)
(* and then send their GET.                                                 *)

\* the timed pipelines that hold the semaphore
PacedInFlight ==
  {i \in DOMAIN p_tasks : p_tasks[i].pc \notin {"waiting", "done"}}

\* no timed crawl is running
PaceIdle ==
  /\ p_now = 0
  /\ p_semaphore = 0
  /\ p_tasks = <<>>
  /\ p_last = -1

\* `async with semaphore`, then parse_document_page starts its sleep
PaceAcquire(i) ==
  /\ p_tasks[i].pc = "waiting"
  /\ Cardinality(PacedInFlight) < p_semaphore
  /\ p_tasks' = [p_tasks EXCEPT ![i] =
                   [pc |-> "sleep_detail", wake |-> p_now + Interval]]
  /\ UNCHANGED <<p_now, p_semaphore, p_last>>

\* asyncio.sleep(1.0 / settings.rate_limit) is over: client.get(url) of the
\* detail page starts
PaceFetch(i) ==
  /\ p_tasks[i].pc = "sleep_detail"
  /\ p_now >= p_tasks[i].wake
  /\ p_tasks' = [p_tasks EXCEPT ![i].pc = "detail", ![i].wake = 0]
  /\ p_last' = p_now
  /\ UNCHANGED <<p_now, p_semaphore>>

\* the detail page has answered and the row is stored; with a pdf url
\* download_pdf starts its sleep, without one the pipeline ends
PaceDetailDone(i) ==
  /\ p_tasks[i].pc = "detail"
  /\ \/ p_tasks' = [p_tasks EXCEPT ![i] =
                      [pc |-> "sleep_pdf", wake |-> p_now + Interval]]
     \/ p_tasks' = [p_tasks EXCEPT ![i].pc = "done"]
  /\ UNCHANGED <<p_now, p_semaphore, p_last>>

\* asyncio.sleep(1.0 / settings.rate_limit) is over: client.get(pdf_url) starts
PaceDownload(i) ==
  /\ p_tasks[i].pc = "sleep_pdf"
  /\ p_now >= p_tasks[i].wake
  /\ p_tasks' = [p_tasks EXCEPT ![i].pc = "download", ![i].wake = 0]
  /\ p_last' = p_now
  /\ UNCHANGED <<p_now, p_semaphore>>

\* the download has ended; the pipeline commits and leaves the semaphore
PaceDownloadDone(i) ==
  /\ p_tasks[i].pc = "download"
  /\ p_tasks' = [p_tasks EXCEPT ![i].pc = "done"]
  /\ UNCHANGED <<p_now, p_semaphore, p_last>>

\* the clock advances by one tick
Tick ==
  /\ p_now < MaxTime
  /\ p_now' = p_now + 1
  /\ UNCHANGED <<p_semaphore, p_tasks, p_last>>

----------------------------------------------------------------------------
(* LLMProcessor.extract_features (data_cleaning/llm_processor.py): the      *)
(* retried API call, then _parse_llm_response on the text it returned.      *)
(* Keys of the response that are not fields of MedicalDeviceFeatures are    *)
(* ignored by the schema and are left out; confidence scores are counted in *)
(* hundredths.                                                              *)

\* the Optional[str] fields of MedicalDeviceFeatures that the rubric weighs
StrFields ==
  {"device_classification", "device_type", "regulatory_pathway",
   "intended_use", "product_code", "device_category"}

\* the List[str] fields of MedicalDeviceFeatures that the rubric weighs
ListFields ==
  {"standards_referenced", "testing_requirements", "submission_requirements"}

RubricFields == StrFields \cup ListFields

SchemaFields == RubricFields \cup {"confidence_score"}

\* a JSON value: its kind (absent, null, str, num, list, dict), its text
\* (strings; a list is "" when empty), its number (in hundredths) and, for an
\* object, its key/value pairs in order
Val(kind, s, n) == [kind |-> kind, s |-> s, n |-> n, items |-> <<>>]

\* a response object with the rubric fields of P well-formed, the others
\* missing, and confidence_score as given
Populated(P, score) ==
  [f \in SchemaFields |->
     IF f = "confidence_score" THEN score
     ELSE IF f \notin P THEN Val("absent", "", 0)
     ELSE IF f \in ListFields THEN Val("list", "x", 0)
     ELSE Val("str", "x", 0)]

\* what _call_openai_with_retry hands to _parse_llm_response when the loop
\* made no attempt: None
NoResponse == [kind |-> "none", data |-> Populated({}, Val("absent", "", 0))]

\* the texts the API returns: one that is not JSON, and JSON objects: every
\* set of well-formed rubric fields with a score of its own or none, and
\* one field with an odd value, among them nested objects of up to MaxKeys
\* distinct keys in every order
Responses ==
  LET SubValues == {Val("str", "a", 0), Val("str", "b", 0), Val("num", "", 500)}
      SubKeys == {"classification", "value", "text", "name", "note"}
      Items ==
        {p \in UNION {[1..n -> [key : SubKeys, val : SubValues]] : n \in 0..MaxKeys} :
           \A i, j \in DOMAIN p : i # j => p[i].key # p[j].key}
      OddValues ==
        {[Val("dict", "", 0) EXCEPT !.items = items] : items \in Items}
        \cup {Val("null", "", 0), Val("str", "", 0), Val("str", " ", 0),
              Val("str", "x", 0), Val("num", "", 500), Val("num", "", 150),
              Val("num", "", 100), Val("list", "", 0), Val("list", "x", 0)}
      OddFields ==
        {"device_classification", "standards_referenced", "confidence_score"}
      ResponseData ==
        {Populated(P, score) :
           P \in SUBSET RubricFields,
           score \in {Val("absent", "", 0), Val("num", "", 0), Val("num", "", 50)}}
        \cup
        {[Populated(P, Val("absent", "", 0)) EXCEPT ![f] = v] :
           P \in {{}, {"device_type"}}, f \in OddFields, v \in OddValues}
  IN {[kind |-> "text", data |-> NoResponse.data]}
       \cup {[kind |-> "json", data |-> d] : d \in ResponseData}

\* the flattening loop of _parse_llm_response, with "value" looked at first
Flatten_valuefirst(v) ==
  LET has(k) == \E i \in DOMAIN v.items : v.items[i].key = k
      get(k) == v.items[CHOOSE i \in DOMAIN v.items : v.items[i].key = k].val
  IN IF v.kind # "dict" THEN v
     ELSE IF has("value") THEN get("value")
     ELSE IF has("classification") THEN get("classification")
     ELSE IF has("text") THEN get("text")
     ELSE Val("str", "repr", 0)

\* the flattening loop of _parse_llm_response for one key of features_data;
\* str(value) of an object is the string "repr"
Flatten(v) ==
  LET has(k) == \E i \in DOMAIN v.items : v.items[i].key = k
      get(k) == v.items[CHOOSE i \in DOMAIN v.items : v.items[i].key = k].val
      string_values == SelectSeq(v.items, LAMBDA p : p.val.kind = "str")
  IN IF v.kind = "dict"
       THEN IF has("classification") THEN get("classification")
            ELSE IF has("value") THEN get("value")
            ELSE IF has("text") THEN get("text")
            ELSE IF string_values # <<>> THEN string_values[1].val
            ELSE Val("str", "repr", 0)
       ELSE v

FlattenAll(data) == [f \in SchemaFields |-> Flatten(data[f])]

\* pydantic's validation of one keyword argument of MedicalDeviceFeatures:
\* a missing key takes the default; Optional[str] takes a string or None,
\* List[str] a list, confidence_score a number with ge=0.0 and le=1.0
Valid(f, v) ==
  \/ v.kind = "absent"
  \/ f \in StrFields /\ v.kind \in {"str", "null"}
  \/ f \in ListFields /\ v.kind = "list"
  \/ f = "confidence_score" /\ v.kind = "num" /\ v.n >= 0 /\ v.n <= 100

\* MedicalDeviceFeatures(**data) raises no ValidationError
ValidAll(data) == \A f \in SchemaFields : Valid(f, data[f])

\* the Field defaults of MedicalDeviceFeatures
Default(f) ==
  IF f \in StrFields THEN Val("null", "", 0)
  ELSE IF f \in ListFields THEN Val("list", "", 0)
  ELSE Val("num", "", 0)

\* MedicalDeviceFeatures(**data) for data that validates
Features(data) ==
  [f \in SchemaFields |-> IF data[f].kind = "absent" THEN Default(f) ELSE data[f]]

\* _calculate_confidence_score, in hundredths: a string field counts when
\* `value and value.strip()`, a list field when `value and len(value) > 0`;
\* then min(1.0, max(0.0, score))
calculate_confidence_score(features) ==
  LET str(f, weight) ==
        IF features[f].kind = "str" /\ features[f].s \notin {"", " "}
          THEN weight ELSE 0
      list(f, weight) ==
        IF features[f].kind = "list" /\ features[f].s # "" THEN weight ELSE 0
      score ==
        str("device_classification", 20) + str("device_type", 15)
          + str("regulatory_pathway", 15) + str("intended_use", 10)
          + list("standards_referenced", 10) + list("testing_requirements", 10)
          + list("submission_requirements", 10)
          + str("product_code", 5) + str("device_category", 5)
  IN Min(100, Max(0, score))

\* _parse_llm_response without the `confidence_score == 0.0` branch
WithConfidence_keep(features) == features

\* `if features.confidence_score == 0.0: ... = _calculate_confidence_score`
WithConfidence(features) ==
  IF features["confidence_score"].n = 0
    THEN [features EXCEPT !["confidence_score"] =
            Val("num", "", calculate_confidence_score(features))]
    ELSE features

\* ExtractionResponse(features=MedicalDeviceFeatures(confidence_score=0.0,
\* ...), processing_notes=notes, success=False)
Failure(notes) ==
  [success |-> FALSE, features |-> [f \in SchemaFields |-> Default(f)],
   processing_notes |-> notes]

\* the `except ValidationError` branch: valid_fields takes every schema field
\* of features_data as the response gave it and is validated again
partial_extraction(data) ==
  IF ValidAll(data)
    THEN [success |-> TRUE,
          features |-> [Features(data) EXCEPT
                          !["confidence_score"] = Val("num", "", 30)],
          processing_notes |->
            "Partial extraction completed with validation errors"]
    ELSE Failure("Response validation failed")

\* _parse_llm_response
parse_llm_response(response) ==
  IF response.kind = "none" THEN Failure("Unexpected parsing error")
  ELSE IF response.kind = "text"
    THEN Failure("Failed to parse LLM response as JSON")
  ELSE LET flattened_data == FlattenAll(response.data)
       IN IF ValidAll(flattened_data)
            THEN [success |-> TRUE,
                  features |-> WithConfidence(Features(flattened_data)),
                  processing_notes |-> None]
            ELSE partial_extraction(response.data)

\* no extract_features call is running
LLMIdle ==
  /\ l_pc = "idle"
  /\ l_max_retries = 0
  /\ l_retry_delay = 0
  /\ l_attempt = 0
  /\ l_calls = 0
  /\ l_delays = <<>>
  /\ l_response = NoResponse
  /\ l_result = Failure(None)

\* `for attempt in range(self.max_retries)` without its bound
Attempting_forever == TRUE

\* `for attempt in range(self.max_retries)`: the loop body runs
Attempting == l_attempt < l_max_retries

\* a delay that does not grow
Backoff_fixed(attempt) == l_retry_delay

\* delay = self.retry_delay * (2 ** attempt)
Backoff(attempt) == l_retry_delay * (2 ^ attempt)

\* client.chat.completions.create raises: sleep before the next attempt, or
\* after the last attempt re-raise, which extract_features turns into a
\* response with success=False
LLMCallRaises ==
  /\ l_pc = "call"
  /\ Attempting
  /\ l_calls' = l_calls + 1
  /\ IF l_attempt < l_max_retries - 1
       THEN /\ l_delays' = Append(l_delays, Backoff(l_attempt))
            /\ l_pc' = "sleep"
            /\ UNCHANGED l_result
       ELSE /\ l_result' = Failure("Extraction failed")
            /\ l_pc' = "returned"
            /\ UNCHANGED l_delays
  /\ UNCHANGED <<l_max_retries, l_retry_delay, l_attempt, l_response>>

\* client.chat.completions.create returns: the loop returns the content
LLMCallReturns ==
  /\ l_pc = "call"
  /\ Attempting
  /\ l_calls' = l_calls + 1
  /\ l_response' \in Responses
  /\ l_pc' = "parse"
  /\ UNCHANGED <<l_max_retries, l_retry_delay, l_attempt, l_delays, l_result>>

\* the loop ends without an attempt: _call_openai_with_retry returns None
LLMExhausted ==
  /\ l_pc = "call"
  /\ ~Attempting
  /\ l_response' = NoResponse
  /\ l_pc' = "parse"
  /\ UNCHANGED <<l_max_retries, l_retry_delay, l_attempt, l_calls, l_delays,
                 l_result>>

\* asyncio.sleep(delay) is over: the next attempt
LLMWake ==
  /\ l_pc = "sleep"
  /\ l_attempt' = l_attempt + 1
  /\ l_pc' = "call"
  /\ UNCHANGED <<l_max_retries, l_retry_delay, l_calls, l_delays, l_response,
                 l_result>>

\* a parse step that goes back to the call when the response is unusable
LLMParse_retry ==
  /\ l_pc = "parse"
  /\ l_result' = parse_llm_response(l_response)
  /\ l_pc' = IF l_result'.success THEN "returned" ELSE "call"
  /\ UNCHANGED <<l_max_retries, l_retry_delay, l_attempt, l_calls, l_delays,
                 l_response>>

\* extract_features: _parse_llm_response on the text, and return
LLMParse ==
  /\ l_pc = "parse"
  /\ l_result' = parse_llm_response(l_response)
  /\ l_pc' = "returned"
  /\ UNCHANGED <<l_max_retries, l_retry_delay, l_attempt, l_calls, l_delays,
                 l_response>>

----------------------------------------------------------------------------
(* crawl() under a configuration: create_crawl_session stores               *)
(* settings.max_concurrency and settings.rate_limit as they are, crawl()    *)
(* builds Semaphore(settings.max_concurrency), and the pipelines sleep      *)
(* 1.0 / settings.rate_limit inside parse_document_page and download_pdf.   *)

\* no crawl under a configuration is running
ConfigIdle ==
  /\ c_pc = "idle"
  /\ c_max_concurrency = 1
  /\ c_rate_limit = 1
  /\ c_session = None
  /\ c_documents = 0
  /\ c_permits = 0
  /\ c_tasks = <<>>

\* create_crawl_session: the row is added and committed with the settings
\* in effect
ConfigCreate ==
  /\ c_pc = "create"
  /\ c_session' = "running"
  /\ c_pc' = "listing"
  /\ UNCHANGED <<c_max_concurrency, c_rate_limit, c_documents, c_permits,
                 c_tasks>>

\* get_listing_data and update_session_total_documents
ConfigListing ==
  /\ c_pc = "listing"
  /\ c_documents' \in 0..MaxPaced
  /\ c_pc' = "semaphore"
  /\ UNCHANGED <<c_max_concurrency, c_rate_limit, c_session, c_permits,
                 c_tasks>>

\* asyncio.Semaphore(settings.max_concurrency) raises ValueError for a
\* negative value; otherwise gather starts one pipeline per document
ConfigSemaphore ==
  /\ c_pc = "semaphore"
  /\ IF c_max_concurrency < 0
       THEN /\ c_pc' = "except"
            /\ UNCHANGED <<c_permits, c_tasks>>
       ELSE /\ c_permits' = c_max_concurrency
            /\ c_tasks' =
                 [i \in 1..c_documents |->
                    [pc |-> "waiting", detail |-> None, pdf |-> None]]
            /\ c_pc' = "gather"
  /\ UNCHANGED <<c_max_concurrency, c_rate_limit, c_session, c_documents>>

\* variant: a pipeline that has ended keeps its permit
ConfigAcquire_kept(i) ==
  /\ c_pc = "gather"
  /\ c_tasks[i].pc = "waiting"
  /\ Cardinality({j \in DOMAIN c_tasks :
                    c_tasks[j].pc # "waiting"}) < c_permits
  /\ c_tasks' = [c_tasks EXCEPT ![i].pc = "detail"]
  /\ UNCHANGED <<c_pc, c_max_concurrency, c_rate_limit, c_session,
                 c_documents, c_permits>>

\* `async with semaphore`: the pipeline is dispatched
ConfigAcquire(i) ==
  /\ c_pc = "gather"
  /\ c_tasks[i].pc = "waiting"
  /\ Cardinality({j \in DOMAIN c_tasks :
                    c_tasks[j].pc \notin {"waiting", "done"}}) < c_permits
  /\ c_tasks' = [c_tasks EXCEPT ![i].pc = "detail"]
  /\ UNCHANGED <<c_pc, c_max_concurrency, c_rate_limit, c_session,
                 c_documents, c_permits>>

\* parse_document_page: 1.0 / settings.rate_limit raises ZeroDivisionError
\* for 0, which the function turns into a parsing_error; a negative sleep
\* returns at once; then the page is fetched and the document stored, and
\* the pipeline goes on to its pdf or has none
ConfigDetail(i) ==
  /\ c_pc = "gather"
  /\ c_tasks[i].pc = "detail"
  /\ \E detail \in IF c_rate_limit = 0 THEN {"parsing_error"}
                   ELSE {"metadata", "parsing_error"} :
     \E next \in {"download", "done"} :
        c_tasks' = [c_tasks EXCEPT ![i].detail = detail, ![i].pc = next]
  /\ UNCHANGED <<c_pc, c_max_concurrency, c_rate_limit, c_session,
                 c_documents, c_permits>>

\* download_pdf: the same division; the function returns None on any error
ConfigDownload(i) ==
  /\ c_pc = "gather"
  /\ c_tasks[i].pc = "download"
  /\ \E pdf \in IF c_rate_limit = 0 THEN {"failed"} ELSE {"stored", "failed"} :
        c_tasks' = [c_tasks EXCEPT ![i].pdf = pdf, ![i].pc = "done"]
  /\ UNCHANGED <<c_pc, c_max_concurrency, c_rate_limit, c_session,
                 c_documents, c_permits>>

\* gather has returned: complete_session
ConfigComplete ==
  /\ c_pc = "gather"
  /\ \A i \in DOMAIN c_tasks : c_tasks[i].pc = "done"
  /\ c_session' = "completed"
  /\ c_pc' = "returned"
  /\ UNCHANGED <<c_max_concurrency, c_rate_limit, c_documents, c_permits,
                 c_tasks>>

\* the except block of crawl(): fail_session, then re-raise
ConfigExcept ==
  /\ c_pc = "except"
  /\ c_session' = "failed"
  /\ c_pc' = "raised"
  /\ UNCHANGED <<c_max_concurrency, c_rate_limit, c_documents, c_permits,
                 c_tasks>>

----------------------------------------------------------------------------
(* Single calls: DocumentRepository.create_or_update_document              *)
(* (fda_crawler/database.py) and two listing strategies of FDACrawler      *)
(* (fda_crawler/crawler.py), get_listing_data_with_browser and             *)
(* get_listing_data_with_undetected_chrome.                                *)

\* none of the single calls is under way, those of `running` apart
CallsIdle(running) ==
  /\ \/ "repo" \in running
     \/ /\ repo_pc = "idle"
        /\ repo_doc_data = [document_url |-> UrlName[1], summary |-> None]
  /\ \/ "browser" \in running
     \/ /\ br_pc = "idle"
        /\ br_call = [limit |-> NoLimit, fault |-> "none", page |-> <<>>]
        /\ br_result = Returns(<<>>)
  /\ \/ "chrome" \in running
     \/ /\ uc_pc = "idle"
        /\ uc_call = [limit |-> NoLimit, rows |-> <<>>]
        /\ uc_result = <<>>

\* create_or_update_document(doc_data, session_id).  For a url without a
\* row, Document(...) is added with the column default "pending", committed
\* and refreshed.  For a url with a row, get_document_by_url loads the row in
\* a session of its own, closed when it returns: the object is detached, the
\* setattr loop changes that object only, commit on this session writes
\* nothing and session.refresh(doc) raises InvalidRequestError
create_or_update_document(doc_data, sid) ==
  /\ repo_pc = "idle"
  /\ repo_doc_data' = doc_data
  /\ IF DocIdsByUrl(doc_data.document_url) # {}
       THEN /\ documents' = documents
            /\ repo_pc' = "raised"
       ELSE /\ documents' =
                 Append(documents,
                        [NewDocument(doc_data.document_url, sid) EXCEPT
                           !.summary = doc_data.summary,
                           !.processing_status = "pending"])
            /\ repo_pc' = "returned"
  /\ UNCHANGED <<glvars, crawl_sessions, attachments, runvars, hvars, flow,
                 xdbvars, xrunvars, pacevars, llmvars, confvars,
                 br_pc, br_call, br_result, uc_pc, uc_call, uc_result>>

\* get_listing_data_with_browser(limit).  `fault` is where the automation
\* raises: "launch" in p.chromium.launch, "page" anywhere after it, "none"
\* nowhere.  The except block returns get_listing_data_fallback(limit); the
\* finally block runs `await browser.close()`, and after a failed launch
\* `browser` was never bound: the UnboundLocalError of the finally block
\* replaces the return.  Without a fault the rows of the page are taken while
\* `limit and i >= limit` is false
get_listing_data_with_browser(limit, fault, page) ==
  IF fault = "launch" THEN Raises
  ELSE IF fault = "page" THEN Returns(FallbackList(limit))
  ELSE IF ~Truthy(limit) THEN Returns(page)
  ELSE IF limit[1] < 0 THEN Returns(<<>>)
  ELSE Returns(PySlice(page, limit[1]))

\* one call of get_listing_data_with_browser
BrowserCall ==
  /\ br_pc = "idle"
  /\ br_result' =
       get_listing_data_with_browser(br_call.limit, br_call.fault, br_call.page)
  /\ br_pc' = "called"
  /\ UNCHANGED <<glvars, dbvars, runvars, hvars, flow, xdbvars, xrunvars,
                 pacevars, llmvars, confvars, repo_pc, repo_doc_data,
                 br_call, uc_pc, uc_call, uc_result>>

\* the rows of the listing table as Selenium gives them: whether row.text has
\* 20 characters or more, the <a> elements (text, href) and the <td> texts
TableRows ==
  [long : BOOLEAN,
   links : {<<>>} \cup
           {<<[text |-> t, href |-> h]>> :
              t \in {"", " ", " Title "}, h \in {None, "", "u1"}},
   cells : {<<"x", "x">>, <<"x", "07/31/2025", "Final">>,
            <<"418 KB", "x", "Draft">>}]

\* variant: the row is taken whatever its title and url are
parse_table_row_selenium_unchecked(row) ==
  IF row.links = <<>> THEN <<>>
  ELSE <<[title |-> row.links[1].text,
          document_url |-> row.links[1].href,
          pdf_url |-> "", pdf_size |-> "", issue_date |-> "",
          fda_organization |-> "", topic |-> "", guidance_status |-> "",
          open_for_comment |-> FALSE]>>

\* _parse_table_row_selenium: <<>> is None, <<d>> the dict d.  The title is
\* the stripped text of the first link, the url its href; a row without a
\* link, a title or a url gives None.  Each cell text sets pdf_size (KB, MB),
\* else issue_date (two slashes), else guidance_status (Final, Draft); a
\* later cell overwrites an earlier one
parse_table_row_selenium(row) ==
  LET strip(t) == IF t = " " THEN "" ELSE IF t = " Title " THEN "Title" ELSE t
      kind(c) == IF c \in {"418 KB"} THEN "pdf_size"
                 ELSE IF c \in {"07/31/2025"} THEN "issue_date"
                 ELSE IF c \in {"Final", "Draft"} THEN "guidance_status"
                 ELSE "none"
      last(k) == LET at == {n \in DOMAIN row.cells : kind(row.cells[n]) = k}
                 IN IF at = {} THEN ""
                    ELSE row.cells[CHOOSE n \in at : \A m \in at : m <= n]
  IN IF row.links = <<>> THEN <<>>
     ELSE IF strip(row.links[1].text) = "" \/ row.links[1].href \in {None, ""}
       THEN <<>>
     ELSE <<[title |-> strip(row.links[1].text),
             document_url |-> row.links[1].href,
             pdf_url |-> "", pdf_size |-> last("pdf_size"),
             issue_date |-> last("issue_date"),
             fda_organization |-> "", topic |-> "",
             guidance_status |-> last("guidance_status"),
             open_for_comment |-> FALSE]>>

RECURSIVE get_listing_data_with_undetected_chrome(_, _, _)
\* the row loop of get_listing_data_with_undetected_chrome: rows with a short
\* text, without links or with fewer than three cells are skipped; a parsed
\* row is appended, and `limit and len(documents) >= limit` ends the loop
get_listing_data_with_undetected_chrome(rows, limit, found) ==
  IF rows = <<>> THEN found
  ELSE LET row == Head(rows)
           data == IF ~row.long \/ row.links = <<>> \/ Len(row.cells) < 3
                     THEN <<>>
                     ELSE parse_table_row_selenium(row)
           docs == found \o data
       IN IF data # <<>> /\ Truthy(limit) /\ Len(docs) >= limit[1]
            THEN docs
            ELSE get_listing_data_with_undetected_chrome(Tail(rows), limit, docs)

\* one call of get_listing_data_with_undetected_chrome on a table that loads
ChromeCall ==
  /\ uc_pc = "idle"
  /\ uc_result' =
       get_listing_data_with_undetected_chrome(uc_call.rows, uc_call.limit, <<>>)
  /\ uc_pc' = "called"
  /\ UNCHANGED <<glvars, dbvars, runvars, hvars, flow, xdbvars, xrunvars,
                 pacevars, llmvars, confvars, repo_pc, repo_doc_data,
                 br_pc, br_call, br_result, uc_call>>

----------------------------------------------------------------------------
(* The specifications *)

ListingInit ==
  /\ flow = "harvest"
  /\ GLInit /\ DbInit /\ RunInit /\ HInit /\ XInit /\ PaceIdle /\ LLMIdle /\ ConfigIdle
  /\ CallsIdle({})

ListingNext ==
  \/ \E limit \in Limits : GLCall(limit) /\ UNCHANGED <<dbvars, runvars, hvars, xvars>>
  \/ \E out \in StrategyOutcomes :
        TryChrome(out) /\ Record(out) /\ UNCHANGED <<dbvars, runvars, hvars, xvars>>
  \/ \E out \in StrategyOutcomes :
        TryPlaywright(out) /\ Record(out) /\ UNCHANGED <<dbvars, runvars, hvars, xvars>>
  \/ \E out \in StrategyOutcomes :
        TryHttp(out) /\ Record(out) /\ UNCHANGED <<dbvars, runvars, hvars, xvars>>
  \/ GLReturn /\ UNCHANGED <<dbvars, runvars, hvars, xvars>>

SpecListing == ListingInit /\ [][ListingNext]_vars

\* the harvest flow starts on an empty database
HarvestInit ==
  /\ flow = "harvest"
  /\ GLInit /\ DbInit /\ RunInit /\ HInit /\ XInit /\ PaceIdle /\ LLMIdle /\ ConfigIdle
  /\ CallsIdle({})

\* the source tables as a crawl that was killed before complete_session has
\* left them: a running session with its total, and one Document per url,
\* completed (with its pdf attachment, or without one when the page had no
\* pdf) or failed; the documents of `twice` have their attachment twice, as
\* two pipelines of one url leave it
SourceTables(k, st, withPdf, twice) ==
  /\ crawl_sessions =
       IF k = 0 THEN <<>>
       ELSE <<[NewCrawlSession EXCEPT !.total_documents = k]>>
  /\ h_listing = IF k = 0 THEN <<>> ELSE <<{}>>
  /\ h_pdf = {UrlName[d] : d \in withPdf}
  /\ documents =
       [d \in 1..k |->
          [NewDocument(UrlName[d], 1) EXCEPT
             !.processing_status = st[d],
             !.processing_error = IF st[d] = "failed" THEN "error" ELSE None]]
  /\ attachments =
       SetToBag({NewAttachment(d, "pdf") : d \in withPdf})
         (+) SetToBag({NewAttachment(d, "pdf") : d \in twice})

\* the extract flow starts on the tables of a killed crawl
ExtractInit ==
  /\ flow = "extract"
  /\ GLInit /\ RunInit /\ XInit /\ PaceIdle /\ LLMIdle /\ ConfigIdle
  /\ CallsIdle({})
  /\ \E k \in 0..MaxDocs :
     \E st \in [1..k -> {"completed", "failed"}] :
     \E withPdf \in SUBSET {d \in 1..k : st[d] = "completed"} :
        SourceTables(k, st, withPdf, {})

Init == HarvestInit \/ ExtractInit

Next ==
  \/ \E limit \in CrawlLimits : CrawlFresh(limit)
  \/ \E limit \in CrawlLimits : FDACrawlFresh(limit)
  \/ FDACrawlListing
  \/ \E id \in 1..MaxSessions : CrawlResume(id)
  \/ CrawlListing
  \/ CrawlUpdateTotal
  \/ CrawlLoad
  \/ CrawlRaise
  \/ CrawlComplete
  \/ CrawlExcept
  \/ Kill
  \/ NewCrawler
  \/ \E i \in DOMAIN tasks : PAcquire(i)
  \/ \E i \in DOMAIN tasks : PCheck(i)
  \/ \E i \in DOMAIN tasks : PDetail(i)
  \/ \E i \in DOMAIN tasks : PPersist(i)
  \/ \E i \in DOMAIN tasks : PAttach(i)
  \/ \E i \in DOMAIN tasks : PFinal(i)
  \/ XFresh
  \/ \E id \in 1..MaxXSessions : XResume(id)
  \/ \E limit \in XLimits : XQuery(limit)
  \/ XBatch
  \/ \E i \in DOMAIN x_tasks : XAcquire(i)
  \/ \E i \in DOMAIN x_tasks : XProcess(i)
  \/ \E i \in DOMAIN x_tasks : XIncRead(i)
  \/ \E i \in DOMAIN x_tasks : XIncWrite(i)
  \/ \E i \in DOMAIN x_tasks : XSleep(i)
  \/ XBatchDone
  \/ XRaise
  \/ XKill

Spec == Init /\ [][Next]_vars

\* the extract flow on tables where one document has its attachment twice
FeaturesInit ==
  /\ flow = "extract"
  /\ GLInit /\ RunInit /\ XInit /\ PaceIdle /\ LLMIdle /\ ConfigIdle
  /\ CallsIdle({})
  /\ \E k \in 1..MaxDocs :
     \E st \in [1..k -> {"completed", "failed"}] :
     \E withPdf \in SUBSET {d \in 1..k : st[d] = "completed"} :
     \E d \in withPdf :
        SourceTables(k, st, withPdf, {d})

XNext ==
  \/ XFresh
  \/ \E id \in 1..MaxXSessions : XResume(id)
  \/ \E limit \in XLimits : XQuery(limit)
  \/ XBatch
  \/ \E i \in DOMAIN x_tasks : XAcquire(i)
  \/ \E i \in DOMAIN x_tasks : XProcess(i)
  \/ \E i \in DOMAIN x_tasks : XIncRead(i)
  \/ \E i \in DOMAIN x_tasks : XIncWrite(i)
  \/ \E i \in DOMAIN x_tasks : XSleep(i)
  \/ XBatchDone
  \/ XRaise
  \/ XKill

SpecFeatures == FeaturesInit /\ [][XNext]_vars

\* one crawl() for every configuration tried, the non-positive ones included
ConfigInit ==
  /\ flow = "config"
  /\ GLInit /\ DbInit /\ RunInit /\ HInit /\ XInit /\ PaceIdle /\ LLMIdle
  /\ CallsIdle({})
  /\ c_pc = "create"
  /\ c_max_concurrency \in -1..MaxConc
  /\ c_rate_limit \in -1..MaxRateLimit
  /\ c_session = None
  /\ c_documents = 0
  /\ c_permits = 0
  /\ c_tasks = <<>>

ConfigNext ==
  \/ ConfigCreate /\ UNCHANGED unconfvars
  \/ ConfigListing /\ UNCHANGED unconfvars
  \/ ConfigSemaphore /\ UNCHANGED unconfvars
  \/ \E i \in DOMAIN c_tasks : ConfigAcquire(i) /\ UNCHANGED unconfvars
  \/ \E i \in DOMAIN c_tasks : ConfigDetail(i) /\ UNCHANGED unconfvars
  \/ \E i \in DOMAIN c_tasks : ConfigDownload(i) /\ UNCHANGED unconfvars
  \/ ConfigComplete /\ UNCHANGED unconfvars
  \/ ConfigExcept /\ UNCHANGED unconfvars

SpecConfig == ConfigInit /\ [][ConfigNext]_vars

\* the same crawl on an event loop that keeps running whatever is ready: a
\* pipeline that can take a step, and crawl() itself, are not held up forever
SpecTermination == ConfigInit /\ [][ConfigNext]_vars /\ WF_vars(ConfigNext)

\* the timed crawl: gather has created the pipelines of a work list under
\* Semaphore(settings.max_concurrency)
PacingInit ==
  /\ flow = "pacing"
  /\ GLInit /\ DbInit /\ RunInit /\ HInit /\ XInit /\ LLMIdle /\ ConfigIdle
  /\ CallsIdle({})
  /\ p_now = 0
  /\ p_semaphore \in 1..MaxConc
  /\ p_tasks \in UNION {[1..n -> {[pc |-> "waiting", wake |-> 0]}] : n \in 1..MaxPaced}
  /\ p_last = -1

PacingNext ==
  \/ \E i \in DOMAIN p_tasks : PaceAcquire(i) /\ UNCHANGED unpacedvars
  \/ \E i \in DOMAIN p_tasks : PaceFetch(i) /\ UNCHANGED unpacedvars
  \/ \E i \in DOMAIN p_tasks : PaceDetailDone(i) /\ UNCHANGED unpacedvars
  \/ \E i \in DOMAIN p_tasks : PaceDownload(i) /\ UNCHANGED unpacedvars
  \/ \E i \in DOMAIN p_tasks : PaceDownloadDone(i) /\ UNCHANGED unpacedvars
  \/ Tick /\ UNCHANGED unpacedvars

SpecPacing == PacingInit /\ [][PacingNext]_vars

\* one extract_features call, for every retry setting tried
LLMInit ==
  /\ flow = "llm"
  /\ GLInit /\ DbInit /\ RunInit /\ HInit /\ XInit /\ PaceIdle /\ ConfigIdle
  /\ CallsIdle({})
  /\ l_pc = "call"
  /\ l_max_retries \in 0..MaxRetries
  /\ l_retry_delay \in 1..MaxDelay
  /\ l_attempt = 0
  /\ l_calls = 0
  /\ l_delays = <<>>
  /\ l_response = NoResponse
  /\ l_result = Failure(None)

LLMNext ==
  \/ LLMCallRaises /\ UNCHANGED unllmvars
  \/ LLMCallReturns /\ UNCHANGED unllmvars
  \/ LLMExhausted /\ UNCHANGED unllmvars
  \/ LLMWake /\ UNCHANGED unllmvars
  \/ LLMParse /\ UNCHANGED unllmvars

SpecLLM == LLMInit /\ [][LLMNext]_vars

\* the repository on a table of up to MaxDocs documents of one session
RepoInit ==
  /\ flow = "repo"
  /\ GLInit /\ RunInit /\ HInit /\ XInit /\ PaceIdle /\ LLMIdle /\ ConfigIdle
  /\ CallsIdle({"repo"})
  /\ crawl_sessions = <<NewCrawlSession>>
  /\ attachments = EmptyBag
  /\ \E k \in 0..MaxDocs :
     \E summary \in [1..k -> {None, "old"}] :
     \E st \in [1..k -> {"pending", "completed"}] :
        documents =
          [d \in 1..k |->
             [NewDocument(UrlName[d], 1) EXCEPT
                !.summary = summary[d], !.processing_status = st[d]]]
  /\ repo_pc = "idle"
  /\ repo_doc_data = [document_url |-> UrlName[1], summary |-> None]

RepoNext ==
  \E url \in {UrlName[d] : d \in 1..(MaxDocs + 1)} :
  \E summary \in {None, "new"} :
     create_or_update_document(
       [document_url |-> url, summary |-> summary], 1)

SpecRepo == RepoInit /\ [][RepoNext]_vars

\* one call of get_listing_data_with_browser for every limit, fault and page
BrowserInit ==
  /\ flow = "browser"
  /\ GLInit /\ DbInit /\ RunInit /\ HInit /\ XInit /\ PaceIdle /\ LLMIdle
  /\ ConfigIdle
  /\ CallsIdle({"browser"})
  /\ br_pc = "idle"
  /\ br_call \in [limit : Limits, fault : {"none", "launch", "page"},
                  page : StrategyLists]
  /\ br_result = Returns(<<>>)

BrowserNext == BrowserCall

SpecBrowser == BrowserInit /\ [][BrowserNext]_vars

\* one call of get_listing_data_with_undetected_chrome for every limit and
\* every table of up to MaxRows rows
ChromeInit ==
  /\ flow = "chrome"
  /\ GLInit /\ DbInit /\ RunInit /\ HInit /\ XInit /\ PaceIdle /\ LLMIdle
  /\ ConfigIdle
  /\ CallsIdle({"chrome"})
  /\ uc_pc = "idle"
  /\ uc_call \in [limit : {NoLimit} \cup {<<n>> : n \in 0..MaxRows},
                  rows : UNION {[1..n -> TableRows] : n \in 0..MaxRows}]
  /\ uc_result = <<>>

ChromeNext == ChromeCall

SpecChrome == ChromeInit /\ [][ChromeNext]_vars

----------------------------------------------------------------------------
(* Properties *)

\* C1: a crawl that has run to completion, interrupted and resumed on the way
\* or not, ends with a Document for every url of its listing
C1_ResumeEquivalence ==
  \A s \in DOMAIN crawl_sessions :
     crawl_sessions[s].status = "completed" =>
        h_listing[s] \subseteq
          {documents[d].document_url : d \in DOMAIN documents}

\* C2: no two Document rows have the same document_url
C2_UniqueUrl ==
  \A d1, d2 \in DOMAIN documents :
     documents[d1].document_url = documents[d2].document_url => d1 = d2

\* a pipeline's INSERT was refused and the url still has exactly one row
C2_Witness ==
  \E i \in DOMAIN tasks :
     /\ tasks[i].err = "IntegrityError"
     /\ Cardinality(DocIdsByUrl(tasks[i].doc_data.document_url)) = 1

\* C3: a pipeline whose url had a completed Document when it looked ends with
\* True and has made no detail fetch, no download and no database write
C3_ShortCircuit ==
  \A i \in DOMAIN tasks :
     (tasks[i].pc = "done" /\ tasks[i].seen_completed)
        => (tasks[i].result = "True" /\ tasks[i].did = {})

\* a pipeline ended on the early return while another one did real work
C3_Witness ==
  \E i, j \in DOMAIN tasks :
     /\ tasks[i].pc = "done" /\ tasks[i].seen_completed
     /\ tasks[j].pc = "done" /\ "download" \in tasks[j].did

\* C4: when a resume has loaded its work list, every Document of the session
\* that is still in status processing is in that work list
C4_ProcessingReprocessed ==
  (pc = "processing" /\ resume # 0
     /\ \A i \in DOMAIN tasks : tasks[i].pc = "waiting")
  => \A d \in DOMAIN documents :
        (documents[d].crawl_session_id = session_id
           /\ documents[d].processing_status = "processing")
        => documents[d].document_url \in UrlsOf(documents_data)

\* C5: resume_crawl_session(id) returns False and changes no session when id
\* is unknown or the session is completed; otherwise it returns True, sets
\* exactly that session's status to running and leaves its counters alone
C5_Resume ==
  [][(pc = "idle" /\ resume' # 0) =>
       IF resume' \notin DOMAIN crawl_sessions
            \/ crawl_sessions[resume'].status = "completed"
         THEN pc' = "except" /\ crawl_sessions' = crawl_sessions
         ELSE /\ pc' = "load"
              /\ session_id' = resume'
              /\ crawl_sessions'[resume'].status = "running"
              /\ crawl_sessions'[resume'].processed_documents
                   = crawl_sessions[resume'].processed_documents
              /\ crawl_sessions'[resume'].successful_downloads
                   = crawl_sessions[resume'].successful_downloads
              /\ crawl_sessions'[resume'].failed_documents
                   = crawl_sessions[resume'].failed_documents
              /\ \A s \in DOMAIN crawl_sessions :
                    s # resume' => crawl_sessions'[s] = crawl_sessions[s]
              /\ DOMAIN crawl_sessions' = DOMAIN crawl_sessions]_vars

\* a failed session has just been resumed: it runs again, its error is kept
C5_Witness ==
  /\ pc = "load"
  /\ resume # 0
  /\ crawl_sessions[resume].status = "running"
  /\ crawl_sessions[resume].last_error # None

\* C6: once a session is completed, no step changes its status, error_count
\* or last_error
C6_CompletedTerminal ==
  [][\A s \in DOMAIN crawl_sessions :
        crawl_sessions[s].status = "completed"
          => /\ crawl_sessions'[s].status = "completed"
             /\ crawl_sessions'[s].error_count = crawl_sessions[s].error_count
             /\ crawl_sessions'[s].last_error = crawl_sessions[s].last_error]_vars

\* C7: a completed session has processed = successful + failed
C7_CounterSum ==
  \A s \in DOMAIN crawl_sessions :
     crawl_sessions[s].status = "completed"
       => crawl_sessions[s].processed_documents
            = crawl_sessions[s].successful_downloads
              + crawl_sessions[s].failed_documents

\* a strategy call that raised or returned the empty list
Failed(out) == out.raised \/ out.docs = <<>>

\* C8: the strategies are invoked in the order chrome, playwright, http, each
\* only after every earlier one failed; the first non-empty list is returned
\* and nothing is invoked after it; the chain gives up only after all three
C8_ChainOrder ==
  /\ Len(gl_tried) <= Len(StrategyOrder)
  /\ Len(gl_outcomes) = Len(gl_tried)
  /\ \A k \in DOMAIN gl_tried : gl_tried[k] = StrategyOrder[k]
  /\ \A k \in DOMAIN gl_outcomes :
        k < Len(gl_outcomes) => Failed(gl_outcomes[k])
  /\ gl_pc \in {"chrome", "playwright", "http"} =>
        /\ \A k \in DOMAIN gl_outcomes : Failed(gl_outcomes[k])
        /\ gl_pc = StrategyOrder[Len(gl_tried) + 1]
  /\ gl_pc = "returned" =>
        /\ gl_tried # <<>>
        /\ IF Failed(gl_outcomes[Len(gl_outcomes)])
             THEN Len(gl_tried) = Len(StrategyOrder)
             ELSE gl_result = gl_outcomes[Len(gl_outcomes)].docs

\* A raises, B returns [], C returns two documents: the chain returns them
C8_Witness ==
  /\ gl_pc = "returned"
  /\ gl_tried = StrategyOrder
  /\ gl_outcomes[1].raised
  /\ gl_outcomes[2] = Returns(<<>>)
  /\ Len(gl_outcomes[3].docs) = 2
  /\ gl_result = gl_outcomes[3].docs

\* C9: get_listing_data does not end in an exception, and when every strategy
\* has failed it returns FALLBACK_DOCUMENTS, cut to its first `limit` entries
\* when a limit >= 1 was given
C9_FallbackList ==
  /\ gl_pc # "raised"
  /\ (gl_pc = "returned" /\ \A k \in DOMAIN gl_outcomes : Failed(gl_outcomes[k]))
       => /\ gl_limit = NoLimit => gl_result = FALLBACK_DOCUMENTS
          /\ (gl_limit # NoLimit /\ gl_limit[1] >= 1) =>
                /\ Len(gl_result) = Min(gl_limit[1], Len(FALLBACK_DOCUMENTS))
                /\ \A k \in DOMAIN gl_result : gl_result[k] = FALLBACK_DOCUMENTS[k]

\* all three strategies failed under limit 2: the first two seed documents
C9_Witness ==
  /\ gl_pc = "returned"
  /\ Len(gl_tried) = 3
  /\ \A k \in DOMAIN gl_outcomes : Failed(gl_outcomes[k])
  /\ gl_outcomes[3].raised
  /\ gl_limit = <<2>>
  /\ Len(gl_result) = 2

\* C10: at no instant do more document pipelines hold the semaphore than its
\* capacity max_concurrency, in the harvest flow and in the extract flow
C10_ConcurrencyBound ==
  /\ Cardinality(InFlight) <= semaphore
  /\ Cardinality(XInFlight) <= x_semaphore

\* an extract batch has more documents than permits: every permit is taken,
\* by a task that is in its rate-limit sleep, and another task is waiting
C10_Witness ==
  /\ x_pc = "gather"
  /\ Cardinality(XInFlight) = x_semaphore
  /\ Len(x_tasks) > x_semaphore
  /\ \E i \in DOMAIN x_tasks : x_tasks[i].pc = "sleeping"
  /\ \E i \in DOMAIN x_tasks : x_tasks[i].pc = "waiting"

\* C11: over all pipelines of one crawl, an external request starts at least
\* 1 / rate_limit after the one that started before it
C11_PoolWidePacing ==
  [][\A i \in DOMAIN p_tasks :
        (/\ p_tasks[i].pc \in {"sleep_detail", "sleep_pdf"}
         /\ p_tasks'[i].pc \in {"detail", "download"})
        => (p_last = -1 \/ p_now - p_last >= Interval)]_vars

\* C12: a document pipeline that returns failure or raises leaves the run
\* where it is and the other pipelines untouched; a session is marked
\* completed only when every item of the work list has been processed, and
\* once every pipeline of a crawl has ended the crawl marks it completed
C12_FailureIsolation ==
  [][/\ \A i \in DOMAIN tasks :
          (/\ pc = "processing"
           /\ DOMAIN tasks' = DOMAIN tasks
           /\ tasks[i].pc # "done"
           /\ tasks'[i].pc = "done"
           /\ tasks'[i].result # "True") =>
             /\ pc' = "processing"
             /\ crawl_sessions' = crawl_sessions
             /\ \A j \in DOMAIN tasks : j # i => tasks'[j] = tasks[j]
     /\ \A i \in DOMAIN x_tasks :
          (/\ x_pc = "gather"
           /\ DOMAIN x_tasks' = DOMAIN x_tasks
           /\ x_tasks[i].pc = "running"
           /\ x_tasks'[i].pc = "inc_read"
           /\ ~x_tasks'[i].ok) =>
             /\ x_pc' = "gather"
             /\ processing_sessions' = processing_sessions
             /\ \A j \in DOMAIN x_tasks : j # i => x_tasks'[j] = x_tasks[j]
     /\ \A s \in DOMAIN crawl_sessions :
          (crawl_sessions[s].status # "completed"
             /\ crawl_sessions'[s].status = "completed")
          => /\ pc = "processing"
             /\ \A i \in DOMAIN tasks : tasks[i].pc = "done"
     /\ \A s \in DOMAIN processing_sessions :
          (processing_sessions[s].status # "completed"
             /\ processing_sessions'[s].status = "completed")
          => \/ x_pc = "query"
             \/ x_pc = "batch" /\ x_next > Len(x_documents)
     /\ (/\ pc = "processing"
         /\ \A i \in DOMAIN tasks : tasks[i].pc = "done"
         /\ session_id' = session_id)
        => crawl_sessions'[session_id].status = "completed"]_vars

\* a crawl of two documents of which one failed has been marked completed
C12_Witness ==
  \E s \in DOMAIN crawl_sessions :
     /\ crawl_sessions[s].status = "completed"
     /\ crawl_sessions[s].processed_documents = 2
     /\ crawl_sessions[s].successful_downloads = 1

\* C13: every Document with status failed has an error recorded
C13_FailedHasError ==
  \A d \in DOMAIN documents :
     documents[d].processing_status = "failed"
       => documents[d].processing_error # None

\* C14: a completed Document for which a pdf url was known, from the listing
\* or the detail page, has a completed Attachment
C14_AttachmentBeforeCompleted ==
  \A d \in DOMAIN documents :
     (documents[d].processing_status = "completed"
        /\ documents[d].document_url \in h_pdf)
     => AttachmentRows(d, PdfUrls) >= 1

\* C15: a pipeline that has found no attachment url, in the listing data or
\* on the detail page, reports failure when it ends and leaves its Document
\* failed, never completed
C15_NoUrlIsFailure ==
  [][\A i \in DOMAIN tasks :
        (/\ pc = "processing"
         /\ DOMAIN tasks' = DOMAIN tasks
         /\ tasks[i].pc = "final"
         /\ PdfUrlOf(tasks[i]) = None
         /\ tasks'[i].pc = "done") =>
           /\ tasks'[i].result = "False"
           /\ documents'[tasks[i].doc].processing_status = "failed"]_vars

\* C16: once a Document is completed, no step changes its status
C16_CompletedStays ==
  [][\A d \in DOMAIN documents :
        documents[d].processing_status = "completed"
          => documents'[d].processing_status = "completed"]_vars

\* C17: while a fresh crawl is processing, the processed_documents stored for
\* its session is the number of its pipelines that have finished
C17_ProgressReported ==
  (pc = "processing" /\ resume = 0)
    => crawl_sessions[session_id].processed_documents
         = Cardinality({i \in DOMAIN tasks : tasks[i].pc = "done"})

\* C18: under every interleaving of the concurrent increments of one extract
\* session, each finished document raises processed_documents +
\* failed_documents by exactly one, and neither counter ever decreases
C18_NoLostUpdate ==
  [][/\ \A i \in DOMAIN x_tasks :
          (/\ x_pc = "gather"
           /\ DOMAIN x_tasks' = DOMAIN x_tasks
           /\ x_tasks[i].pc = "inc_write"
           /\ x_tasks'[i].pc = "sleeping") =>
             processing_sessions'[x_session_id].processed_documents
               + processing_sessions'[x_session_id].failed_documents
             = XCounted(x_session_id) + 1
     /\ \A s \in DOMAIN processing_sessions :
          /\ processing_sessions'[s].processed_documents
                >= processing_sessions[s].processed_documents
          /\ processing_sessions'[s].failed_documents
                >= processing_sessions[s].failed_documents]_vars

\* C19: a pipeline that updates a stored Document leaves a field unchanged
\* when its new value is null, and no step turns a non-null field into null
C19_NoNullClobber ==
  [][/\ \A i \in DOMAIN tasks :
          (/\ pc = "processing"
           /\ DOMAIN tasks' = DOMAIN tasks
           /\ tasks[i].pc = "persist"
           /\ tasks[i].doc # 0
           /\ tasks'[i].pc = "attach"
           /\ SummaryOf(tasks[i]) = None)
            => documents'[tasks[i].doc].summary = documents[tasks[i].doc].summary
     /\ \A d \in DOMAIN documents :
          /\ documents[d].summary # None => documents'[d].summary # None
          /\ documents[d].processing_error # None
               => documents'[d].processing_error # None]_vars

\* on a resume the detail page could not be parsed, and the pipeline has
\* updated the row of a Document whose summary an earlier run had stored
C19_Witness ==
  \E i \in DOMAIN tasks :
     /\ resume # 0
     /\ tasks[i].pc = "attach"
     /\ tasks[i].detail = "parsing_error"
     /\ tasks[i].doc # 0
     /\ documents[tasks[i].doc].summary = "summary"

\* C20: a fresh crawl never has an empty work list, and no session is stored
\* with a total of zero documents
C20_NoEmptyWorkList ==
  /\ (pc = "processing" /\ resume = 0) => documents_data # <<>>
  /\ \A s \in DOMAIN crawl_sessions : crawl_sessions[s].total_documents # 0

\* C21: one extraction makes at most max_retries API calls; when every
\* attempt has raised, the loop has made exactly max_retries calls and
\* extract_features has returned a response with success = False
C21_RetryBound ==
  /\ l_calls <= l_max_retries
  /\ (l_pc = "returned" /\ l_response.kind = "none") =>
        /\ ~l_result.success
        /\ l_calls = l_max_retries

\* three attempts, all raised, and a failure response was returned
C21_Witness ==
  /\ l_pc = "returned"
  /\ l_max_retries = 3
  /\ l_calls = 3
  /\ l_response.kind = "none"
  /\ ~l_result.success
  /\ l_result.processing_notes = "Extraction failed"

\* C22: the a-th wait (a counted from 0) is retry_delay * 2^a, every failed
\* attempt but the last allowed one is followed by exactly one wait, and
\* neither the last allowed attempt nor a successful one is followed by a wait
C22_Backoff ==
  LET failed == IF l_response.kind = "none" THEN l_calls ELSE l_calls - 1
  IN /\ \A a \in DOMAIN l_delays : l_delays[a] = l_retry_delay * (2 ^ (a - 1))
     /\ Len(l_delays) =
          IF failed < l_max_retries THEN failed ELSE Max(0, l_max_retries - 1)

\* with retry_delay 2 and three attempts that all raised, the waits were 2
\* and 4 and none followed the third attempt
C22_Witness ==
  /\ l_pc = "returned"
  /\ l_retry_delay = 2
  /\ l_calls = 3
  /\ l_response.kind = "none"
  /\ l_delays = <<2, 4>>

\* C23: once a call has returned a response, no further call is made,
\* whatever parsing and validation make of the response
C23_OnlyCallRetried ==
  [][l_response.kind # "none" => l_calls' = l_calls]_vars

\* the first of three allowed attempts returned text that is not JSON:
\* extract_features returned the failure after that one call
C23_Witness ==
  /\ l_pc = "returned"
  /\ l_max_retries = 3
  /\ l_calls = 1
  /\ l_response.kind = "text"
  /\ ~l_result.success

\* C24: a nested object flattens to its "classification" sub-value if that
\* key is present, else "value", else "text", else its first string
\* sub-value, else the string form of the object; any other value passes
\* through unchanged; and the validated features are the flattened values
C24_FlattenPrecedence ==
  (l_pc \in {"parse", "returned"} /\ l_response.kind = "json") =>
    \A f \in SchemaFields :
      LET v == l_response.data[f]
          at(k) == v.items[CHOOSE i \in DOMAIN v.items : v.items[i].key = k].val
          strs == {i \in DOMAIN v.items : v.items[i].val.kind = "str"}
          expected ==
            IF v.kind # "dict" THEN v
            ELSE IF \E i \in DOMAIN v.items : v.items[i].key = "classification"
              THEN at("classification")
            ELSE IF \E i \in DOMAIN v.items : v.items[i].key = "value"
              THEN at("value")
            ELSE IF \E i \in DOMAIN v.items : v.items[i].key = "text"
              THEN at("text")
            ELSE IF strs # {}
              THEN v.items[CHOOSE i \in strs : \A j \in strs : i <= j].val
            ELSE Val("str", "repr", 0)
      IN /\ Flatten(v) = expected
         /\ (/\ l_pc = "returned"
             /\ l_result.success
             /\ v.kind # "absent"
             /\ f # "confidence_score") => l_result.features[f] = expected

\* a nested object with "value" before "classification" came back as the
\* device class, and the stored field is the "classification" sub-value
C24_Witness ==
  /\ l_pc = "returned"
  /\ l_result.success
  /\ l_response.data["device_classification"] =
       [Val("dict", "", 0) EXCEPT !.items =
          <<[key |-> "value", val |-> Val("str", "a", 0)],
            [key |-> "classification", val |-> Val("str", "b", 0)]>>]
  /\ l_result.features["device_classification"] = Val("str", "b", 0)

\* C25: a response whose flattened fields do not all validate gives a
\* successful result with confidence_score 0.3 that keeps exactly the fields
\* that validate on their own
C25_PartialExtraction ==
  (/\ l_pc = "returned"
   /\ l_response.kind = "json"
   /\ ~ValidAll(FlattenAll(l_response.data))) =>
     LET flat == FlattenAll(l_response.data)
     IN /\ l_result.success
        /\ l_result.features["confidence_score"] = Val("num", "", 30)
        /\ \A f \in RubricFields :
             l_result.features[f] =
               IF Valid(f, flat[f]) THEN Features(flat)[f] ELSE Default(f)

\* C26: every confidence score returned lies in [0,1]; a validated score
\* of 0.0 is replaced by the sum of the rubric weights of the populated
\* fields (the weights total 1.0), a non-zero validated score is kept
C26_ConfidenceRange ==
  LET W == [device_classification |-> 20, device_type |-> 15,
            regulatory_pathway |-> 15, intended_use |-> 10,
            standards_referenced |-> 10, testing_requirements |-> 10,
            submission_requirements |-> 10, product_code |-> 5,
            device_category |-> 5]
      got == l_result.features
      populated(f) ==
        IF f \in ListFields THEN got[f] = Val("list", "x", 0)
        ELSE got[f].kind = "str" /\ got[f].s \notin {"", " "}
      w(f) == IF populated(f) THEN W[f] ELSE 0
      sum == w("device_classification") + w("device_type")
               + w("regulatory_pathway") + w("intended_use")
               + w("standards_referenced") + w("testing_requirements")
               + w("submission_requirements") + w("product_code")
               + w("device_category")
      validated == Flatten(l_response.data["confidence_score"])
  IN /\ got["confidence_score"].kind = "num"
     /\ got["confidence_score"].n >= 0
     /\ got["confidence_score"].n <= 100
     /\ (/\ l_pc = "returned"
         /\ l_result.success
         /\ l_result.processing_notes = None) =>
           got["confidence_score"].n =
             IF validated.kind = "absent" \/ validated.n = 0
               THEN Min(100, sum)
               ELSE validated.n

\* a response with every rubric field populated and no score of its own
\* came back with confidence 1.0
C26_Witness ==
  /\ l_pc = "returned"
  /\ l_result.success
  /\ l_response.data = Populated(RubricFields, Val("absent", "", 0))
  /\ l_result.features["confidence_score"] = Val("num", "", 100)

\* C27: at most one DocumentFeatures row exists per source document
C27_OneFeaturesRow ==
  \A f \in BagToSet(document_features) : CopiesIn(f, document_features) = 1 /\
     \A g \in BagToSet(document_features) :
        g.source_document_id = f.source_document_id => g = f

\* C28: every step that takes a crawl session or a processing session to
\* status failed adds exactly one to its error_count and leaves an error
\* message in its last_error
C28_FailCountsError ==
  [][/\ \A s \in DOMAIN crawl_sessions :
          (/\ s \in DOMAIN crawl_sessions'
           /\ crawl_sessions[s].status # "failed"
           /\ crawl_sessions'[s].status = "failed") =>
             /\ crawl_sessions'[s].error_count = crawl_sessions[s].error_count + 1
             /\ crawl_sessions'[s].last_error # None
     /\ \A s \in DOMAIN processing_sessions :
          (/\ s \in DOMAIN processing_sessions'
           /\ processing_sessions[s].status # "failed"
           /\ processing_sessions'[s].status = "failed") =>
             /\ processing_sessions'[s].error_count =
                  processing_sessions[s].error_count + 1
             /\ processing_sessions'[s].last_error # None]_vars

\* C29: a session whose status is completed or failed has completed_at set
C29_TerminalHasCompletedAt ==
  /\ \A s \in DOMAIN crawl_sessions :
        crawl_sessions[s].status \in {"completed", "failed"} =>
          crawl_sessions[s].completed_at # None
  /\ \A s \in DOMAIN processing_sessions :
        processing_sessions[s].status \in {"completed", "failed"} =>
          processing_sessions[s].completed_at # None

\* C30: with max_concurrency <= 0 or rate_limit <= 0 no session is stored
\* and no pipeline is ever started
C30_ConfigRejected ==
  (c_max_concurrency <= 0 \/ c_rate_limit <= 0) =>
    /\ c_session = None
    /\ c_tasks = <<>>

\* C31: the step that cancels a running crawl leaves no Document in status
\* processing
C31_CancelLeavesNoProcessing ==
  [][(/\ pc = "processing"
      /\ pc' = "idle"
      /\ crawl_sessions' = crawl_sessions) =>
       \A d \in DOMAIN documents' :
          documents'[d].processing_status # "processing"]_vars

\* C32: process_documents(resume_session_id=id) on a session whose status is
\* completed leaves the processing_sessions table as it is
C32_CompletedResumeRejected ==
  [][(/\ x_pc = "idle"
      /\ x_pc' # "idle"
      /\ x_session_id' \in DOMAIN processing_sessions
      /\ processing_sessions[x_session_id'].status = "completed") =>
       processing_sessions' = processing_sessions]_vars

\* C33: when a fresh crawl on a database that holds nothing of earlier crawls
\* completes, and its work list was N distinct documents with an attachment
\* url each, all downloaded with success, then the session reports
\* processed_documents = N, exactly N Document rows are completed and each of
\* them has exactly one completed Attachment
C33_AllSucceed ==
  [][(/\ pc = "processing"
      /\ pc' = "idle"
      /\ crawl_sessions'[session_id].status = "completed"
      /\ resume = 0
      /\ \A d \in DOMAIN documents :
            documents[d].crawl_session_id = session_id
      /\ Cardinality(UrlsOf(documents_data)) = Len(documents_data)
      /\ \A i \in DOMAIN tasks :
            /\ tasks[i].doc_data.pdf_url # None
            /\ tasks[i].result = "True"
            /\ "download" \in tasks[i].did) =>
       LET completed == {d \in DOMAIN documents' :
                           documents'[d].processing_status = "completed"}
       IN /\ crawl_sessions'[session_id].processed_documents
               = Len(documents_data)
          /\ Cardinality(completed) = Len(documents_data)
          /\ \A d \in completed : AttachmentRows(d, PdfUrls) = 1]_vars

\* a fresh crawl over two seed documents has completed, with both documents
\* completed and one attachment stored for each
C33_Witness ==
  /\ flow = "harvest"
  /\ pc = "idle"
  /\ Len(crawl_sessions) = 1
  /\ crawl_sessions[1].status = "completed"
  /\ crawl_sessions[1].processed_documents = 2
  /\ crawl_sessions[1].successful_downloads = 2
  /\ Len(documents) = 2
  /\ \A d \in DOMAIN documents :
        /\ documents[d].processing_status = "completed"
        /\ AttachmentRows(d, PdfUrls) = 1

\* C34: a pipeline whose detail fetch failed goes on: it stores the Document
\* row of its url (unless another pipeline has stored that url meanwhile) and
\* its attachment step downloads from the listing's attachment url
C34_DetailFailureContinues ==
  [][\A i \in DOMAIN tasks :
        (/\ pc = "processing"
         /\ DOMAIN tasks' = DOMAIN tasks
         /\ tasks'[i] # tasks[i]) =>
          LET t == tasks[i]
              url == t.doc_data.document_url
          IN /\ (t.pc = "detail" /\ tasks'[i].detail = "parsing_error") =>
                  tasks'[i].pc = "persist"
             /\ (/\ t.pc = "persist"
                 /\ t.detail = "parsing_error"
                 /\ (t.doc # 0 \/ DocIdsByUrl(url) = {})) =>
                  /\ tasks'[i].pc = "attach"
                  /\ tasks'[i].doc \in DOMAIN documents'
                  /\ documents'[tasks'[i].doc].document_url = url
             /\ (/\ t.pc = "attach"
                 /\ t.detail = "parsing_error"
                 /\ t.doc_data.pdf_url # None
                 /\ CopiesIn(NewAttachment(t.doc, t.doc_data.pdf_url),
                             attachments) = 0) =>
                  /\ tasks'[i].pc = "final"
                  /\ "download" \in tasks'[i].did]_vars

\* a pipeline whose detail fetch failed has stored its Document and has
\* downloaded the attachment the listing named
C34_Witness ==
  \E i \in DOMAIN tasks :
     /\ tasks[i].pc = "final"
     /\ tasks[i].detail = "parsing_error"
     /\ tasks[i].new_attachment = tasks[i].doc_data.pdf_url
     /\ tasks[i].new_attachment # None
     /\ documents[tasks[i].doc].document_url = tasks[i].doc_data.document_url

\* C35: every candidate get_listing_data_with_undetected_chrome returns has
\* a non-empty title, a non-empty document_url and the nine fields, and comes
\* from a row whose first link has a title and a url: the other rows give
\* no candidate
C35_CandidatesWellFormed ==
  uc_pc = "called" =>
    LET usable == {r \in DOMAIN uc_call.rows :
                     /\ uc_call.rows[r].links # <<>>
                     /\ uc_call.rows[r].links[1].text \notin {"", " "}
                     /\ uc_call.rows[r].links[1].href \notin {None, ""}}
    IN /\ Len(uc_result) <= Cardinality(usable)
       /\ \A k \in DOMAIN uc_result :
             /\ uc_result[k].title # ""
             /\ uc_result[k].document_url \notin {None, ""}
             /\ DOMAIN uc_result[k] =
                  {"title", "document_url", "pdf_url", "pdf_size",
                   "issue_date", "fda_organization", "topic",
                   "guidance_status", "open_for_comment"}
             /\ \E r \in usable :
                   uc_call.rows[r].links[1].href = uc_result[k].document_url

\* of a table of two rows with links, the one with a blank link text gave no
\* candidate and the other one did
C35_Witness ==
  /\ uc_pc = "called"
  /\ uc_call.limit = NoLimit
  /\ Len(uc_call.rows) = 2
  /\ Len(uc_result) = 1
  /\ \E r \in DOMAIN uc_call.rows :
        /\ uc_call.rows[r].long
        /\ Len(uc_call.rows[r].cells) = 3
        /\ uc_call.rows[r].links # <<>>
        /\ uc_call.rows[r].links[1].text = " "
        /\ uc_call.rows[r].links[1].href = "u1"

C37_Terminates ==
  (c_pc = "gather" /\ c_max_concurrency >= 1)
    ~> (/\ c_pc = "returned"
        /\ c_session = "completed"
        /\ \A i \in DOMAIN c_tasks : c_tasks[i].pc = "done")

\* a crawl() of more documents than permits has returned
C37_Witness ==
  /\ c_pc = "returned"
  /\ c_max_concurrency >= 1
  /\ Len(c_tasks) > c_permits
  /\ \A i \in DOMAIN c_tasks : c_tasks[i].pc = "done"

\* C38: create_or_update_document for a url that has a row returns, and the
\* stored row then holds the candidate's non-null fields
C38_MergeExisting ==
  [][(/\ repo_pc = "idle"
      /\ repo_pc' # "idle"
      /\ DocIdsByUrl(repo_doc_data'.document_url) # {}) =>
       /\ repo_pc' = "returned"
       /\ \A d \in DocIdsByUrl(repo_doc_data'.document_url) :
             documents'[d].summary =
               Merge(documents[d].summary, repo_doc_data'.summary)]_vars

\* C39: get_listing_data_with_browser does not raise, and when the
\* automation fails it returns the seed list cut to the limit
C39_BrowserNeverRaises ==
  br_pc = "called" =>
    /\ ~br_result.raised
    /\ br_call.fault # "none" =>
         br_result.docs = FallbackList(br_call.limit)

====
